---- MODULE Spec2Model ----
(***************************************************************************)
(* Model of the quality gate emitted by create-open-mcp:                   *)
(*   - the ESLint boundary configuration (templates/prettier-config.ts,    *)
(*     getEslintConfig) evaluated on import edges, and                     *)
(*   - the generated scripts/check-code-quality.sh                         *)
(*     (templates/code-quality-script.ts, getCodeQualityScript) executed   *)
(*     check by check on a project file set.                               *)
(***************************************************************************)
EXTENDS Integers, Sequences, FiniteSets, TLC

VARIABLES
  lintChecked,   \* import edges the boundary rules have been evaluated on
  lintReported,  \* <<rule, edge>> pairs reported by the boundary rules
  fs,            \* the checked project: path -> set of lines of the file
  dirs,          \* directories of the checked project that hold no file
  pc,            \* position of check-code-quality.sh
  ERRORS_FOUND,  \* the script's ERRORS_FOUND variable
  printed,       \* <<severity, check, subject>> findings printed so far
  ran,           \* checks whose section has been executed to its end
  exitStatus,    \* process exit status, -1 while the script is running
  previous,      \* <<>>, or <<outcome of the run before this one>>
  gen,           \* a run of the generator (main), <<>> when none is modelled
  gate,          \* a run of `npm run pre-commit`, <<>> when none is modelled
  net,           \* a call of getPackageJson, <<>> when none is modelled
  shown          \* the listing of one check's matches, <<>> when none is modelled

vars == <<lintChecked, lintReported, fs, dirs, pc, ERRORS_FOUND, printed, ran, exitStatus, previous,
          gen, gate, net, shown>>
lintVars == <<lintChecked, lintReported>>
scriptVars == <<fs, dirs, pc, ERRORS_FOUND, printed, ran, exitStatus, previous>>

\* ------------------------------------------------------------------------
\* Bounds
\* ------------------------------------------------------------------------
MaxImports == 2      \* import edges linted in one behaviour
MaxDeviations == 2   \* edits applied to the conforming project
MaxEdits == 1        \* edits applied to the project that is checked twice
MaxNameLen == 3      \* parts of a project name
MaxArgParts == 2     \* parts of a name given to the generator
MaxMatches == 12     \* lines a grep of the script matches

\* ------------------------------------------------------------------------
\* Generic helpers
\* ------------------------------------------------------------------------
Range(s) == {s[i] : i \in 1..Len(s)}

IsPrefix(p, s) == Len(p) <= Len(s) /\ \A i \in 1..Len(p) : s[i] = p[i]

\* ========================================================================
\* PART 1 - ESLint boundary configuration
\* ========================================================================

\* settings['boundaries/elements']: layer of a file, by path pattern.
\* 'src/<layer>/**' covers every file below the folder; 'src/index.ts' is
\* matched in mode 'file'.  The first matching element wins.
boundariesElements ==
  << [type |-> "domain",         pattern |-> <<"src", "domain">>,         mode |-> "folder"],
     [type |-> "application",    pattern |-> <<"src", "application">>,    mode |-> "folder"],
     [type |-> "infrastructure", pattern |-> <<"src", "infrastructure">>, mode |-> "folder"],
     [type |-> "mcp",            pattern |-> <<"src", "mcp">>,            mode |-> "folder"],
     [type |-> "di",             pattern |-> <<"src", "di">>,             mode |-> "folder"],
     [type |-> "entry",          pattern |-> <<"src", "index.ts">>,       mode |-> "file"] >>

ElementMatches(el, path) ==
  IF el.mode = "file" THEN path = el.pattern
  ELSE IsPrefix(el.pattern, path) /\ Len(path) > Len(el.pattern)

ElementType(path) ==
  LET hits == {i \in 1..Len(boundariesElements) : ElementMatches(boundariesElements[i], path)}
  IN IF hits = {} THEN "unknown"
     ELSE boundariesElements[CHOOSE i \in hits : \A j \in hits : i <= j].type

\* rules['boundaries/element-types']
elementTypesDefault == "disallow"

elementTypesRules ==
  << [from |-> {"domain"},         allow |-> {"domain"}],
     [from |-> {"application"},    allow |-> {"application", "domain"}],
     [from |-> {"infrastructure"}, allow |-> {"infrastructure", "application", "domain"}],
     [from |-> {"mcp"},            allow |-> {"mcp", "application", "di"}],
     [from |-> {"di"},             allow |-> {"di", "application", "infrastructure", "mcp"}],
     [from |-> {"entry"},          allow |-> {"mcp", "di"}] >>

\* Rule evaluation of the plugin: start from the default, let every rule
\* whose `from` matches override the verdict when its allow list matches.
RECURSIVE ElementTypesVerdict(_, _, _, _)
ElementTypesVerdict(i, fromType, toType, verdict) ==
  IF i > Len(elementTypesRules) THEN verdict
  ELSE LET r == elementTypesRules[i]
       IN ElementTypesVerdict(i + 1, fromType, toType,
            IF fromType \in r.from /\ toType \in r.allow THEN TRUE ELSE verdict)

ElementTypesAllowsOtherLayers(fromType, toType) ==
  \* a configuration whose allow lists leave out the importing layer itself
  ElementTypesVerdict(1, fromType, toType, elementTypesDefault = "allow") /\ fromType # toType

ElementTypesAllowsDiFromInfrastructure(fromType, toType) ==
  \* a configuration that lets infrastructure import the container
  ElementTypesVerdict(1, fromType, toType, elementTypesDefault = "allow")
    \/ (fromType = "infrastructure" /\ toType = "di")

ElementTypesAllowsBroken(fromType, toType) ==
  \* a configuration that lets the application layer reach infrastructure
  ElementTypesVerdict(1, fromType, toType, elementTypesDefault = "allow")
    \/ (fromType = "application" /\ toType = "infrastructure")

ElementTypesAllows(fromType, toType) ==
  ElementTypesVerdict(1, fromType, toType, elementTypesDefault = "allow")

\* rules['boundaries/external']: package names and patterns are sequences of
\* '/'-separated segments; a '*' of a glob pattern matches within one
\* segment only.
externalDefault == "allow"

externalRules ==
  << [from |-> {"domain"},
      disallow |-> { <<"*">> },
      allow |-> {}],
     [from |-> {"application"},
      disallow |-> { <<"express">>, <<"fastify">>, <<"koa">>, <<"better-sqlite3">>,
                     <<"pg">>, <<"mysql2">>, <<"neo4j-driver">>, <<"mongodb">>,
                     <<"@modelcontextprotocol", "*">> },
      allow |-> {}] >>

GlobMatch(pattern, name) ==
  /\ Len(pattern) = Len(name)
  /\ \A i \in 1..Len(pattern) : pattern[i] = "*" \/ pattern[i] = name[i]

RECURSIVE ExternalVerdict(_, _, _, _)
ExternalVerdict(i, fromType, pkg, verdict) ==
  IF i > Len(externalRules) THEN verdict
  ELSE LET r == externalRules[i]
           v == IF fromType \notin r.from THEN verdict
                ELSE IF \E p \in r.disallow : GlobMatch(p, pkg) THEN FALSE
                ELSE IF \E p \in r.allow : GlobMatch(p, pkg) THEN TRUE
                ELSE verdict
       IN ExternalVerdict(i + 1, fromType, pkg, v)

ExternalAllows(fromType, pkg) ==
  ExternalVerdict(1, fromType, pkg, externalDefault = "allow")

\* Files and packages the linter is run on.
LintFiles ==
  { <<"src", "index.ts">>,
    <<"src", "domain", "index.ts">>,         <<"src", "domain", "errors", "base.error.ts">>,
    <<"src", "application", "index.ts">>,    <<"src", "application", "use-cases", "create.use-case.ts">>,
    <<"src", "infrastructure", "index.ts">>, <<"src", "infrastructure", "persistence", "repo.ts">>,
    <<"src", "mcp", "index.ts">>,            <<"src", "mcp", "server.ts">>,
    <<"src", "di", "index.ts">>,             <<"src", "di", "container.ts">> }

LintEdges ==
  {e \in [from : LintFiles, kind : {"internal"}, to : LintFiles] : e.from # e.to}
    \cup [from : LintFiles, kind : {"external"},
          to : { <<"zod">>, <<"express">>, <<"tsyringe">>, <<"@modelcontextprotocol", "sdk">> }]

\* The findings of one import statement: each rule is evaluated on its own.
LintFindings(e) ==
  LET ft == ElementType(e.from)
  IN IF e.kind = "internal"
       THEN IF ft # "unknown" /\ ElementType(e.to) # "unknown"
                 /\ ~ElementTypesAllows(ft, ElementType(e.to))
              THEN {<<"boundaries/element-types", e>>} ELSE {}
       ELSE IF ft # "unknown" /\ ~ExternalAllows(ft, e.to)
              THEN {<<"boundaries/external", e>>} ELSE {}

LintImport(e) ==
  /\ Cardinality(lintChecked) < MaxImports
  /\ e \notin lintChecked
  /\ lintChecked' = lintChecked \cup {e}
  /\ lintReported' = lintReported \cup LintFindings(e)
  /\ UNCHANGED <<scriptVars, gen, gate, net, shown>>

ScriptIdle ==
  /\ fs = <<>> /\ dirs = {} /\ pc = "idle" /\ ERRORS_FOUND = 0
  /\ printed = {} /\ ran = {} /\ exitStatus = -1 /\ previous = <<>>

LintInit ==
  /\ lintChecked = {} /\ lintReported = {} /\ ScriptIdle
  /\ gen = <<>> /\ gate = <<>> /\ net = <<>> /\ shown = <<>>

LintSpec == LintInit /\ [][\E e \in LintEdges : LintImport(e)]_vars

\* ========================================================================
\* PART 2 - the project check-code-quality.sh is run on
\* ========================================================================
\* A file is [dir, name, lines].  dir is the sequence of folder names, name
\* the sequence of the parts of the file name ("data","base",".error",".ts"
\* is database.error.ts), lines the sequence of its lines.  A line is
\* [tok, q, spec, ext]: tok its words in order; for an import or re-export
\* q is the quote character, spec the '/'-separated module specifier and
\* ext its extension.

\* The text of a line is the sequence of the fragments of its words, words
\* separated by " "; an identifier is split where a pattern of the script
\* can start or end inside it.
Fragments ==
  [MockRepository |-> <<"Mock", "Repository">>,
   MemoryRepository |-> <<"Memory", "Repository">>,
   CreateTool |-> <<"Create", "Tool">>,
   CreateUseCase |-> <<"Create", "UseCase">>,
   DomainError |-> <<"Domain", "Error">>,
   NotFoundError |-> <<"NotFound", "Error">>,
   DatabaseError |-> <<"Database", "Error">>,
   ErrorCategory |-> <<"Error", "Category">>,
   errorResult |-> <<"error", "Result">>]
    @@ ("Error(" :> <<"Error", "(">>)

Frag(t) == IF t \in DOMAIN Fragments THEN Fragments[t] ELSE <<t>>

RECURSIVE Joined(_, _)
Joined(parts, sep) ==
  IF parts = <<>> THEN <<>>
  ELSE Frag(Head(parts)) \o (IF Tail(parts) = <<>> THEN <<>> ELSE <<sep>>) \o Joined(Tail(parts), sep)

\* grep -i: letters compare without case
FoldTable == [TODO |-> "todo", FIXME |-> "fixme", XXX |-> "xxx", HACK |-> "hack", BUG |-> "bug",
              Mock |-> "mock", Fake |-> "fake", Dummy |-> "dummy", Stub |-> "stub"]
Fold(x) == IF x \in DOMAIN FoldTable THEN FoldTable[x] ELSE x
FoldSeq(t) == [i \in 1..Len(t) |-> Fold(t[i])]

\* Every line carries its text, every file the set of the fragments of its
\* text (words) and the same without case (folded): grep looks a fragment of
\* the pattern up there before it scans the lines.
Code(tok) == [tok |-> tok, q |-> "", spec |-> <<>>, ext |-> "", text |-> Joined(tok, " ")]
Imp(tok, q, spec, ext) ==
  [tok |-> tok, q |-> q, spec |-> spec, ext |-> ext,
   text |-> Joined(tok, " ") \o <<" ", q>> \o Joined(spec, "/") \o <<ext, q>>]

Indexed(f) ==
  LET words == UNION {Range(f.lines[k].text) : k \in 1..Len(f.lines)}
  IN  [dir |-> f.dir, name |-> f.name, lines |-> f.lines,
       words |-> words, folded |-> {Fold(w) : w \in words}]
File(dir, name, lines) == Indexed([dir |-> dir, name |-> name, lines |-> lines])
Project(files, emptyDirs) == [files |-> files, dirs |-> emptyDirs]

INDEX == <<"index", ".ts">>
ReExport(stem) == Imp(<<"export", "*", "from">>, "'", <<".", stem>>, ".js")

FieldNames == {"code", "suggestedFix", "isRetryable", "category"}

\* A project that satisfies every check: the scaffold of getSourceFiles with
\* one domain error, one schema, one use case and one tool added the way
\* AGENTS.md tells to add them.
BaselineFiles ==
  { File(<<"src">>, INDEX,
      << Imp(<<"import">>, "'", <<"reflect-metadata">>, ""),
         Imp(<<"import", "{", "setupContainer", "}", "from">>, "'", <<".", "di", "container">>, ".js"),
         Imp(<<"import", "{", "startServer", "}", "from">>, "'", <<".", "mcp", "server">>, ".js"),
         Code(<<"setupContainer", "(", ")">>),
         Code(<<"startServer", "(", ")">>) >>),
    File(<<"src", "di">>, INDEX, << ReExport("container") >>),
    File(<<"src", "di">>, <<"container", ".ts">>,
      << Imp(<<"import", "{", "container", "}", "from">>, "'", <<"tsyringe">>, ""),
         Code(<<"export", "function", "setupContainer", "(", ")">>) >>),
    File(<<"src", "domain">>, INDEX,
      << Imp(<<"export", "*", "from">>, "'", <<".", "errors", "index">>, ".js") >>),
    File(<<"src", "domain", "errors">>, INDEX,
      << ReExport("base.error"), ReExport("not-found.error") >>),
    File(<<"src", "domain", "errors">>, <<"base", ".error", ".ts">>,
      << Code(<<"export", "abstract", "class", "DomainError", "extends", "Error">>),
         Code(<<"abstract", "readonly", "code", ":", "string">>),
         Code(<<"abstract", "readonly", "suggestedFix", ":", "string">>),
         Code(<<"abstract", "readonly", "isRetryable", ":", "boolean">>),
         Code(<<"abstract", "readonly", "category", ":", "ErrorCategory">>) >>),
    File(<<"src", "domain", "errors">>, <<"not-found", ".error", ".ts">>,
      << Imp(<<"import", "{", "DomainError", "}", "from">>, "'", <<".", "base.error">>, ".js"),
         Code(<<"export", "class", "NotFoundError", "extends", "DomainError">>),
         Code(<<"readonly", "code", "=", "NOT_FOUND">>),
         Code(<<"readonly", "suggestedFix", "=", "text">>),
         Code(<<"readonly", "isRetryable", "=", "false">>),
         Code(<<"readonly", "category", "=", "not_found">>) >>),
    File(<<"src", "application">>, INDEX,
      << Imp(<<"export", "*", "from">>, "'", <<".", "schemas", "index">>, ".js"),
         Imp(<<"export", "*", "from">>, "'", <<".", "use-cases", "index">>, ".js") >>),
    File(<<"src", "application", "schemas">>, INDEX, << ReExport("create.schema") >>),
    File(<<"src", "application", "schemas">>, <<"create", ".schema", ".ts">>,
      << Imp(<<"import", "{", "z", "}", "from">>, "'", <<"zod">>, ""),
         Code(<<"export", "const", "createSchema", "=", "z", ".object(", ")">>) >>),
    File(<<"src", "application", "ports">>, INDEX, << Code(<<"//", "ports">>) >>),
    File(<<"src", "application", "use-cases">>, INDEX, << ReExport("create.use-case") >>),
    File(<<"src", "application", "use-cases">>, <<"create", ".use-case", ".ts">>,
      << Imp(<<"import", "{", "createSchema", "}", "from">>, "'", <<"..", "schemas", "index">>, ".js"),
         Code(<<"export", "class", "CreateUseCase">>),
         Code(<<"async", "execute", "(", "input", ")">>),
         Code(<<"const", "data", "=", "createSchema", ".parse(", "input", ")">>),
         Code(<<"return", "data">>) >>),
    File(<<"src", "infrastructure">>, INDEX, << Code(<<"//", "adapters">>) >>),
    File(<<"src", "mcp">>, INDEX, << ReExport("server"), ReExport("types") >>),
    File(<<"src", "mcp">>, <<"types", ".ts">>,
      << Code(<<"export", "function", "errorResult", "(", "error", ")">>),
         Code(<<"isError", ":", "true">>) >>),
    File(<<"src", "mcp">>, <<"server", ".ts">>,
      << Imp(<<"import", "{", "container", "}", "from">>, "'", <<"..", "di", "index">>, ".js"),
         Imp(<<"import", "{", "CreateTool", "}", "from">>, "'", <<".", "tools", "index">>, ".js"),
         Code(<<"const", "tool", "=", "container", ".", "resolve", "(", "CreateTool", ")">>),
         Code(<<"export", "async", "function", "startServer", "(", ")">>) >>),
    File(<<"src", "mcp", "tools">>, INDEX, << ReExport("create.tool") >>),
    File(<<"src", "mcp", "tools">>, <<"create", ".tool", ".ts">>,
      << Imp(<<"import", "{", "CreateUseCase", "}", "from">>, "'", <<"..", "..", "application", "index">>, ".js"),
         Imp(<<"import", "{", "ToolResult", "}", "from">>, "'", <<"..", "types">>, ".js"),
         Code(<<"export", "class", "CreateTool">>),
         Code(<<"async", "execute", "(", "args", ")">>),
         Code(<<"try", "{">>),
         Code(<<"return", "useCase", ".", "execute", "(", "args", ")">>),
         Code(<<"}", "catch", "(", "error", ")", "{">>),
         Code(<<"return", "{", "isError", ":", "true", ",", "content", "}">>) >>),
    File(<<"features">>, <<"example", ".feature">>,
      << Code(<<"Feature:", "Example">>),
         Code(<<"Scenario:", "first">>),
         Code(<<"Scenario:", "second">>) >>),
    File(<<"tests", "step-definitions">>, <<"example", ".steps", ".ts">>,
      << Code(<<"Given", "(", ")">>) >>) }

\* Folders the generator creates and leaves empty.
Baseline ==
  Project(BaselineFiles,
    { <<"src", "domain", "entities">>, <<"src", "domain", "value-objects">>,
      <<"src", "infrastructure", "persistence">> })

\* ---- edits of a project ------------------------------------------------
RemoveFile(p, dir, name) ==
  [p EXCEPT !.files = {f \in @ : ~(f.dir = dir /\ f.name = name)}]

AddFile(p, f) ==
  IF \E g \in p.files : g.dir = f.dir /\ g.name = f.name THEN p ELSE [p EXCEPT !.files = @ \cup {f}]

AddLine(p, dir, name, line) ==
  [p EXCEPT !.files =
     {IF f.dir = dir /\ f.name = name THEN Indexed([f EXCEPT !.lines = Append(@, line)]) ELSE f : f \in @}]

\* The lines an edit applies to: those with all the words toks and, when
\* spec is given, with that module specifier.
Sel(toks, spec) == [toks |-> toks, spec |-> spec]
Selected(l, sel) ==
  /\ \A t \in sel.toks : t \in Range(l.tok)
  /\ sel.spec = <<>> \/ l.spec = sel.spec

DropLines(p, dir, name, sel) ==
  [p EXCEPT !.files =
     {IF f.dir = dir /\ f.name = name
        THEN Indexed([f EXCEPT !.lines = SelectSeq(@, LAMBDA l : ~Selected(l, sel))]) ELSE f : f \in @}]

SwapLines(p, dir, name, sel, new) ==
  [p EXCEPT !.files =
     {IF f.dir = dir /\ f.name = name
        THEN Indexed([f EXCEPT !.lines = [i \in 1..Len(@) |-> IF Selected(@[i], sel) THEN new ELSE @[i]]])
        ELSE f : f \in @}]

\* ---- the edits a developer (or an LLM) makes to the conforming project --
USE_CASES_DIR == <<"src", "application", "use-cases">>
UC_NAME == <<"create", ".use-case", ".ts">>
TOOLS_DIR == <<"src", "mcp", "tools">>
TOOL_NAME == <<"create", ".tool", ".ts">>
ERRORS_DIR == <<"src", "domain", "errors">>
BASE_ERROR == <<"base", ".error", ".ts">>
SERVER_NAME == <<"server", ".ts">>

LayerOf == [rm_index_domain |-> "domain", rm_index_application |-> "application",
            rm_index_infrastructure |-> "infrastructure", rm_index_mcp |-> "mcp",
            rm_index_di |-> "di"]

FieldOf == [base_drop_code |-> "code", base_drop_suggestedFix |-> "suggestedFix",
            base_drop_isRetryable |-> "isRetryable", base_drop_category |-> "category"]

Deviations ==
  DOMAIN LayerOf \cup DOMAIN FieldOf \cup
  { "camel_double", "todo_marker", "console_log", "generic_error",
    "rm_errors_index", "rm_schemas_index", "rm_tools_index",
    "infra_subdir", "di_subdir",
    "direct_import", "direct_import_dquote", "direct_import_noext",
    "direct_import_dot", "sibling_import_dotdot",
    "rm_validation", "json_parse",
    "rm_base", "impl_drop_field", "database_error",
    "tool_no_try", "tool_error_result", "tool_unresolved", "tool_unregistered",
    "usecase_unexposed", "low_scenarios", "feature_no_scenario", "rm_steps",
    "undefined_step", "infra_module" }

Apply(p, d) ==
  CASE d \in DOMAIN LayerOf -> RemoveFile(p, <<"src", LayerOf[d]>>, INDEX)
    [] d \in DOMAIN FieldOf ->
         DropLines(p, ERRORS_DIR, BASE_ERROR, Sel({FieldOf[d]}, <<>>))
    [] d = "camel_double" ->
         AddLine(p, <<"src", "infrastructure">>, INDEX,
                 Code(<<"const", "repo", "=", "new", "MockRepository", "(", ")">>))
    [] d = "todo_marker" ->
         AddLine(p, <<"src", "di">>, <<"container", ".ts">>, Code(<<"//", "TODO", "register">>))
    [] d = "console_log" ->
         AddLine(p, <<"src", "mcp">>, SERVER_NAME, Code(<<"console.log(", "started", ")">>))
    [] d = "generic_error" ->
         AddLine(p, USE_CASES_DIR, UC_NAME, Code(<<"throw", "new", "Error(", "failed", ")">>))
    [] d = "rm_errors_index" -> RemoveFile(p, ERRORS_DIR, INDEX)
    [] d = "rm_schemas_index" -> RemoveFile(p, <<"src", "application", "schemas">>, INDEX)
    [] d = "rm_tools_index" -> RemoveFile(p, TOOLS_DIR, INDEX)
    [] d = "infra_subdir" ->
         AddFile(p, File(<<"src", "infrastructure", "persistence">>, <<"memory", ".repository", ".ts">>,
                         << Code(<<"export", "class", "MemoryRepository">>) >>))
    [] d = "di_subdir" ->
         AddFile(p, File(<<"src", "di", "tokens">>, <<"tokens", ".ts">>,
                         << Code(<<"export", "const", "REPOSITORY">>) >>))
    [] d = "direct_import" ->
         SwapLines(p, USE_CASES_DIR, UC_NAME, Sel({}, <<"..", "schemas", "index">>),
                   Imp(<<"import", "{", "createSchema", "}", "from">>, "'", <<"..", "schemas", "create.schema">>, ".js"))
    [] d = "direct_import_dquote" ->
         SwapLines(p, USE_CASES_DIR, UC_NAME, Sel({}, <<"..", "schemas", "index">>),
                   Imp(<<"import", "{", "createSchema", "}", "from">>, "\"", <<"..", "schemas", "create.schema">>, ".js"))
    [] d = "direct_import_noext" ->
         SwapLines(p, USE_CASES_DIR, UC_NAME, Sel({}, <<"..", "schemas", "index">>),
                   Imp(<<"import", "{", "createSchema", "}", "from">>, "'", <<"..", "schemas", "create.schema">>, ""))
    [] d = "direct_import_dot" ->
         AddFile(p, File(<<"src", "domain">>, <<"policy", ".ts">>,
                    << Imp(<<"import", "{", "NotFoundError", "}", "from">>, "'",
                           <<".", "errors", "not-found.error">>, ".js") >>))
    [] d = "sibling_import_dotdot" ->
         AddLine(p, ERRORS_DIR, <<"not-found", ".error", ".ts">>,
                 Imp(<<"import", "{", "ErrorCategory", "}", "from">>, "'", <<"..", "errors", "base.error">>, ".js"))
    [] d = "rm_validation" ->
         DropLines(p, USE_CASES_DIR, UC_NAME, Sel({"createSchema", ".parse("}, <<>>))
    [] d = "json_parse" ->
         AddLine(p, USE_CASES_DIR, UC_NAME, Code(<<"const", "cfg", "=", "JSON", ".parse(", "raw", ")">>))
    [] d = "rm_base" ->
         DropLines(RemoveFile(p, ERRORS_DIR, BASE_ERROR), ERRORS_DIR, INDEX,
                   Sel({}, <<".", "base.error">>))
    [] d = "impl_drop_field" ->
         DropLines(p, ERRORS_DIR, <<"not-found", ".error", ".ts">>, Sel({"suggestedFix"}, <<>>))
    [] d = "database_error" ->
         AddLine(
           AddFile(p, File(ERRORS_DIR, <<"data", "base", ".error", ".ts">>,
                      << Code(<<"export", "class", "DatabaseError", "extends", "DomainError">>),
                         Code(<<"readonly", "code", "=", "DB_FAILED">>),
                         Code(<<"readonly", "isRetryable", "=", "true">>),
                         Code(<<"readonly", "category", "=", "external">>) >>)),
           ERRORS_DIR, INDEX, ReExport("database.error"))
    [] d = "tool_no_try" ->
         DropLines(DropLines(p, TOOLS_DIR, TOOL_NAME, Sel({"try"}, <<>>)), TOOLS_DIR, TOOL_NAME, Sel({"catch"}, <<>>))
    [] d = "tool_error_result" ->
         SwapLines(p, TOOLS_DIR, TOOL_NAME, Sel({"isError"}, <<>>),
                   Code(<<"return", "errorResult", "(", "error", ")">>))
    [] d = "tool_unresolved" ->
         DropLines(p, <<"src", "mcp">>, SERVER_NAME, Sel({"resolve"}, <<>>))
    [] d = "tool_unregistered" ->
         DropLines(p, <<"src", "mcp">>, SERVER_NAME, Sel({"CreateTool"}, <<>>))
    [] d = "usecase_unexposed" ->
         DropLines(p, TOOLS_DIR, TOOL_NAME, Sel({"CreateUseCase"}, <<>>))
    [] d = "low_scenarios" ->
         DropLines(p, <<"features">>, <<"example", ".feature">>, Sel({"second"}, <<>>))
    [] d = "feature_no_scenario" ->
         AddFile(p, File(<<"features">>, <<"empty", ".feature">>, << Code(<<"Feature:", "Empty">>) >>))
    [] d = "infra_module" ->
         AddFile(AddFile(p, File(<<"src", "infrastructure", "persistence">>, <<"memory", ".repository", ".ts">>,
                                 << Code(<<"export", "class", "MemoryRepository">>) >>)),
                 File(<<"src", "infrastructure", "persistence">>, INDEX, << ReExport("memory.repository") >>))
    [] d = "undefined_step" ->
         AddLine(p, <<"features">>, <<"example", ".feature">>,
                 Code(<<"Given", "a", "step", "nobody", "defines">>))
    [] d = "rm_steps" -> RemoveFile(p, <<"tests", "step-definitions">>, <<"example", ".steps", ".ts">>)
    [] OTHER -> p

RECURSIVE ApplyAll(_, _)
ApplyAll(p, ds) == IF ds = <<>> THEN p ELSE ApplyAll(Apply(p, Head(ds)), Tail(ds))

\* The projects the script is run on: the conforming project after at most
\* MaxDeviations edits.
ProjectsWith(n) ==
  {ApplyAll(Baseline, ds) : ds \in [1..n -> Deviations \cup {"none"}]}

\* ========================================================================
\* PART 3 - check-code-quality.sh
\* ========================================================================

\* ---- what grep sees ----------------------------------------------------
\* grep works on the text of the lines (PART 2).
NonWord == {" ", "/", "'", "\"", "(", ")", "{", "}", ":", ",", ".", "=", "//", "*", "-"}

Occurs(n, t, i) == i + Len(n) - 1 <= Len(t) /\ \A k \in 1..Len(n) : t[i + k - 1] = n[k]

\* a fixed string occurs in the text
Lit(n, t) == \E i \in 1..Len(t) : Occurs(n, t, i)

\* the regular expression  a.*b
Then2(a, b, t) ==
  \E i \in 1..Len(t) : \E j \in 1..Len(t) : Occurs(a, t, i) /\ Occurs(b, t, j) /\ j >= i + Len(a)

\* grep -i "\bn\b"
WordLit(n, t) ==
  LET ft == FoldSeq(t)
      fn == FoldSeq(n)
  IN \E i \in 1..Len(t) :
       /\ Occurs(fn, ft, i)
       /\ (i = 1 \/ t[i - 1] \in NonWord)
       /\ (i + Len(n) > Len(t) \/ t[i + Len(n)] \in NonWord)

THROW_NEW_ERROR == <<"throw", " ", "new", " ", "Error">>

\* 2e: "throw new Error.*not.*implement" in src and tests
StubLine(t) ==
  \E i \in 1..Len(t) :
    /\ Occurs(THROW_NEW_ERROR, t, i)
    /\ \E j \in (i + Len(THROW_NEW_ERROR))..Len(t) :
         t[j] = "not" /\ \E k \in (j + 1)..Len(t) : t[k] \in {"implement", "implemented"}

\* 2g: "throw new Error\(" on a line that does not mention DomainError
GenericThrow(t) == Lit(THROW_NEW_ERROR \o <<"(">>, t) /\ ~Lit(Frag("DomainError"), t)

\* "${prefix}[A-Z][a-zA-Z]*" - the prefix followed by a capitalised part
CamelCaseMatch(prefix, t) ==
  \E i \in 1..(Len(t) - 1) : t[i] = prefix /\ t[i + 1] \notin NonWord

\* The regular expressions of the script, and a line matching one.
Re(k, a, b) == [k |-> k, a |-> a, b |-> b]

Matches(re, t) ==
  CASE re.k = "lit" -> Lit(re.a, t)
    [] re.k = "ilit" -> Lit(FoldSeq(re.a), FoldSeq(t))
    [] re.k = "word" -> WordLit(re.a, t)
    [] re.k = "then" -> Then2(re.a, re.b, t)
    [] re.k = "camel" -> CamelCaseMatch(re.a[1], t)
    [] re.k = "stub" -> StubLine(t)
    [] re.k = "generic" -> GenericThrow(t)

\* EXCLUDE_ARGS

Excluded(f) ==
  \/ f.name = <<"check-code-quality", ".sh">>
  \/ f.name[Len(f.name)] \in {".md", ".json"}
  \/ \E i \in 2..Len(f.dir) : f.dir[i] \in {"node_modules", "dist", ".git", "coverage", "reports"}

\* grep -r <pattern> <root>: the files with a matching line
Under(root) == {f \in fs : IsPrefix(root, f.dir)}
\* key is a fragment every matching line contains
GrepQ(f, key, re) == key \in f.words /\ \E k \in 1..Len(f.lines) : Matches(re, f.lines[k].text)
GrepQi(f, key, re) == Fold(key) \in f.folded /\ \E k \in 1..Len(f.lines) : Matches(re, f.lines[k].text)
GrepR(root, key, re) == {f \in Under(root) : ~Excluded(f) /\ GrepQ(f, key, re)}
GrepRi(root, key, re) == {f \in Under(root) : ~Excluded(f) /\ GrepQi(f, key, re)}

IsFile(dir, name) == \E f \in fs : f.dir = dir /\ f.name = name
TheFile(dir, name) == CHOOSE f \in fs : f.dir = dir /\ f.name = name
IsDir(d) == d \in dirs \/ \E f \in fs : IsPrefix(d, f.dir)

EndsWith(name, suffix) ==
  Len(name) >= Len(suffix) /\ SubSeq(name, Len(name) - Len(suffix) + 1, Len(name)) = suffix

\* ---- findings ----------------------------------------------------------
Err(check, dir, name) == <<"error", check, [dir |-> dir, name |-> name]>>
Warn(check, dir, name) == <<"warning", check, [dir |-> dir, name |-> name]>>
ErrF(check, f) == Err(check, f.dir, f.name)
WarnF(check, f) == Warn(check, f.dir, f.name)

Errors(findings) == {x \in findings : x[1] = "error"}

\* a section that also saves what it found to a file of the source tree
SectionLeavesLog(check, findings, next) ==
  /\ printed' = printed \cup findings
  /\ ERRORS_FOUND' = IF Errors(findings) # {} THEN 1 ELSE ERRORS_FOUND
  /\ ran' = ran \cup {check}
  /\ pc' = next
  /\ fs' = IF findings = {} THEN fs
           ELSE fs \cup {File(<<"src">>, <<"quality", ".log">>, << Code(<<"TODO", "findings">>) >>)}
  /\ UNCHANGED <<dirs, exitStatus, previous, lintVars, gen, gate, net, shown>>

\* A section that runs to its end: print, raise ERRORS_FOUND on an error,
\* go on with the next section.
Section(check, findings, next) ==
  /\ printed' = printed \cup findings
  /\ ERRORS_FOUND' = IF Errors(findings) # {} THEN 1 ELSE ERRORS_FOUND
  /\ ran' = ran \cup {check}
  /\ pc' = next
  /\ UNCHANGED <<fs, dirs, exitStatus, previous, lintVars, gen, gate, net, shown>>

\* ---- CHECK 1: incomplete work markers -----------------------------------
\* check_pattern: one finding per pattern that has a match in the tree
check_pattern(check, pattern, root) ==
  IF GrepRi(root, pattern[1], Re("word", Joined(pattern, " "), <<>>)) # {}
    THEN {Err(check, root, pattern)} ELSE {}

\* check_literal
check_literal(check, pattern, root) ==
  IF GrepRi(root, pattern[1], Re("ilit", Joined(pattern, " "), <<>>)) # {}
    THEN {Err(check, root, pattern)} ELSE {}

Check1a == UNION {check_pattern("1a", <<w>>, <<"src">>) : w \in {"TODO", "FIXME", "XXX", "HACK", "BUG"}}
Check1b == UNION {check_pattern("1b", ws, <<"src">>) :
                    ws \in {<<"not", "implemented">>, <<"implement", "this">>, <<"placeholder">>}}
Check1c == UNION {check_pattern("1c", <<w>>, <<"src">>) : w \in {"mock", "fake", "dummy", "stub"}}
Check1d == check_literal("1d", <<".only(">>, <<"src">>) \cup check_literal("1d", <<".skip(">>, <<"src">>)

\* 1c-2
TestDoublePrefixes == <<"Mock", "Fake", "Dummy", "Stub">>
\* index of the first prefix of the loop that has a match, 0 if none has
FirstDouble ==
  LET hit == {i \in 1..Len(TestDoublePrefixes) : GrepR(<<"src">>, TestDoublePrefixes[i], Re("camel", <<TestDoublePrefixes[i]>>, <<>>)) # {}}
  IN IF hit = {} THEN 0 ELSE CHOOSE i \in hit : \A j \in hit : i <= j

\* `local count` outside of a function fails with status 1; under `set -e`
\* the script ends there with that status.
LocalOutsideFunctionStatus == 1

Check1 ==
  /\ pc = "check1"
  /\ LET before == Check1a \cup Check1b \cup Check1c
         first == FirstDouble
     IN IF first = 0
       THEN Section("1", before \cup Check1d, "check2")
       ELSE /\ printed' = printed \cup before \cup {Err("1c-2", <<"src">>, <<TestDoublePrefixes[first]>>)}
            /\ ERRORS_FOUND' = IF before # {} THEN 1 ELSE ERRORS_FOUND
            /\ exitStatus' = LocalOutsideFunctionStatus
            /\ pc' = "exited"
            /\ UNCHANGED <<fs, dirs, ran, previous, lintVars, gen, gate, net, shown>>

\* ---- CHECK 2: type safety and lint bypasses -----------------------------
Check2abc ==
  check_literal("2a", <<"as", "any">>, <<"src">>)
    \cup check_literal("2b", <<"@ts-ignore">>, <<"src">>)
    \cup check_literal("2b", <<"@ts-expect-error">>, <<"src">>)
    \cup check_literal("2c", <<"eslint-disable">>, <<"src">>)

Check2d == UNION {check_pattern("2d", <<w>>, <<"tests">>) : w \in {"TODO", "FIXME", "XXX", "HACK"}}

Check2e ==
  IF GrepR(<<"src">>, "throw", Re("stub", <<>>, <<>>)) \cup GrepR(<<"tests">>, "throw", Re("stub", <<>>, <<>>)) # {}
    THEN {Err("2e", <<"src">>, <<"stub">>)} ELSE {}

Check2f ==
  IF GrepR(<<"src">>, "console.log(", Re("lit", <<"console.log(">>, <<>>)) # {}
    THEN {Err("2f", <<"src">>, <<"console.log(">>)} ELSE {}

Check2g ==
  UNION {IF IsDir(<<"src", layer>>) /\ GrepR(<<"src", layer>>, "throw", Re("generic", <<>>, <<>>)) # {}
           THEN {Err("2g", <<"src", layer>>, <<"Error(">>)} ELSE {} : layer \in {"domain", "application"}}

\* 2h: the first "^import" line of src/index.ts names reflect-metadata
Check2h ==
  IF ~IsFile(<<"src">>, INDEX) THEN {}
  ELSE LET ls == TheFile(<<"src">>, INDEX).lines
           imports == {k \in 1..Len(ls) : ls[k].text[1] = "import"}
       IN IF imports = {} THEN {}
          ELSE LET first == CHOOSE k \in imports : \A j \in imports : k <= j
               IN IF Lit(<<"reflect-metadata">>, ls[first].text) THEN {}
                  ELSE {Err("2h", <<"src">>, INDEX)}

Check2 ==
  /\ pc = "check2"
  /\ Section("2", Check2abc \cup Check2d \cup Check2e \cup Check2f \cup Check2g \cup Check2h, "check3")

\* ---- CHECK 3: barrel exports --------------------------------------------
\* 3a: src/<layer>/index.ts of the five layers
Check3a ==
  {Err("3a", <<"src", layer>>, INDEX) : layer \in {l \in {"domain", "application", "infrastructure", "mcp", "di"} : ~IsFile(<<"src", l>>, INDEX)}}

\* 3b: src/<layer>/*/ of the layers of the loop
SubdirBarrelLayers == {"domain", "application", "mcp"}

Subdirs(parent) ==
  {SubSeq(d, 1, Len(parent) + 1) : d \in {x \in dirs \cup {f.dir : f \in fs} : IsPrefix(parent, x) /\ Len(x) > Len(parent)}}

ts_count(subdir) ==
  Cardinality({f \in fs : f.dir = subdir /\ EndsWith(f.name, <<".ts">>) /\ f.name # INDEX})

Check3b ==
  {Err("3b", sd, INDEX) :
     sd \in {x \in UNION {Subdirs(<<"src", layer>>) : layer \in SubdirBarrelLayers} :
               ts_count(x) > 0 /\ ~IsFile(x, INDEX)}}

\* 3c: from '../ ... /(subdir)/<file>.js'  and not  /index.js'
BarrelSubdirs ==
  {"entities", "value-objects", "errors", "use-cases", "schemas", "ports", "services", "tools"}

DirectImportLine(l) ==
  /\ l.q = "'" /\ l.tok # <<>> /\ l.tok[Len(l.tok)] = "from"
  /\ Len(l.spec) >= 2 /\ l.spec[1] = ".."
  /\ l.ext = ".js"
  /\ \E i \in 2..(Len(l.spec) - 1) : l.spec[i] \in BarrelSubdirs
  /\ l.spec[Len(l.spec)] # "index"

DIRECT_IMPORTS ==
  {f \in Under(<<"src">>) : ~Excluded(f) /\ \E k \in 1..Len(f.lines) : DirectImportLine(f.lines[k])}

Check3c == {ErrF("3c", f) : f \in DIRECT_IMPORTS}

Check3 ==
  /\ pc = "check3"
  /\ Section("3", Check3a \cup Check3b \cup Check3c, "check4")

\* ---- CHECK 4: Zod validation in use cases -------------------------------

UseCaseFiles == {f \in Under(USE_CASES_DIR) : EndsWith(f.name, <<".use-case", ".ts">>)}

\* grep -qE "\.(parse|safeParse)\("
HasValidation(f) ==
  \/ GrepQ(f, ".parse(", Re("lit", <<".parse(">>, <<>>))
  \/ GrepQ(f, ".safeParse(", Re("lit", <<".safeParse(">>, <<>>))

Check4 ==
  /\ pc = "check4"
  /\ Section("4",
       IF IsDir(USE_CASES_DIR)
         THEN {ErrF("4", f) : f \in {u \in UseCaseFiles :
                 GrepQ(u, "execute", Re("lit", <<"execute">>, <<>>)) /\ ~HasValidation(u)}}
         ELSE {Warn("4", USE_CASES_DIR, <<>>)},
       "check5")

\* ---- CHECK 5: domain error structure ------------------------------------

\* 5a: "abstract.*<prop>|readonly.*<prop>" for each of the four properties

MISSING_ABSTRACT ==
  {prop \in FieldNames :
     /\ ~GrepQ(TheFile(ERRORS_DIR, BASE_ERROR), prop, Re("then", <<"abstract">>, <<prop>>))
     /\ ~GrepQ(TheFile(ERRORS_DIR, BASE_ERROR), prop, Re("then", <<"readonly">>, <<prop>>))}

Check5a ==
  IF IsFile(ERRORS_DIR, BASE_ERROR)
    THEN IF MISSING_ABSTRACT # {} THEN {Err("5a", ERRORS_DIR, BASE_ERROR)} ELSE {}
    ELSE {Err("5a", ERRORS_DIR, BASE_ERROR)}

\* 5b: find -name "*.error.ts" -o -name "*.errors.ts"
\*       | grep -v "base.error.ts" | grep -v "index.ts"
ERROR_FILES ==
  {f \in Under(ERRORS_DIR) :
     /\ EndsWith(f.name, <<".error", ".ts">>) \/ EndsWith(f.name, <<".errors", ".ts">>)
     /\ ~Lit(<<"base", ".error", ".ts">>, Joined(f.dir, "/") \o <<"/">> \o f.name)
     /\ ~Lit(<<"index", ".ts">>, Joined(f.dir, "/") \o <<"/">> \o f.name)}

MISSING_PROPS(f) ==
  {prop \in { <<"readonly", " ", "code">>, <<"suggestedFix">>, <<"isRetryable">>, <<"category">> } :
     ~GrepQ(f, prop[Len(prop)], Re("lit", prop, <<>>))}

Check5b ==
  IF IsDir(ERRORS_DIR) THEN {ErrF("5b", f) : f \in {e \in ERROR_FILES : MISSING_PROPS(e) # {}}} ELSE {}

Check5 ==
  /\ pc = "check5"
  /\ Section("5", Check5a \cup Check5b, "check6")

\* ---- CHECK 6: BDD feature coverage --------------------------------------
FEATURES_DIR == <<"features">>
STEPS_DIR == <<"tests", "step-definitions">>

FEATURE_COUNT == Cardinality({f \in Under(FEATURES_DIR) : EndsWith(f.name, <<".feature">>)})

\* "^\s*(Scenario|Scenario Outline):"
ScenarioLine(l) ==
  LET t == l.text
  IN t # <<>> /\ (t[1] = "Scenario:" \/ Occurs(<<"Scenario", " ", "Outline:">>, t, 1))

ScenarioLines(f) == Cardinality({k \in 1..Len(f.lines) : ScenarioLine(f.lines[k])})

\* 6c: SCENARIO_COUNT=$(grep -c ... || echo "0").  grep -c prints the count
\* and fails when the count is 0, so the value is then the two lines "0","0".
SCENARIO_COUNT(f) == IF ScenarioLines(f) = 0 THEN <<0, 0>> ELSE <<ScenarioLines(f)>>

\* [ "$v" -eq 0 ] is true only of a single integer that is 0
TestEqZero(v) == Len(v) = 1 /\ v[1] = 0

FeatureFiles == {f \in fs : f.dir = FEATURES_DIR /\ EndsWith(f.name, <<".feature">>)}

Check6abcd ==
  (IF ~IsDir(FEATURES_DIR) THEN {Err("6a", FEATURES_DIR, <<>>)} ELSE {})
    \cup (IF FEATURE_COUNT = 0 THEN {Err("6b", FEATURES_DIR, <<>>)} ELSE {})
    \cup (IF FEATURE_COUNT > 0
            THEN {ErrF("6c", f) : f \in {x \in FeatureFiles : TestEqZero(SCENARIO_COUNT(x))}}
            ELSE {})
    \cup (IF ~IsDir(STEPS_DIR) THEN {Err("6d", STEPS_DIR, <<>>)}
          ELSE IF {f \in Under(STEPS_DIR) : EndsWith(f.name, <<".steps", ".ts">>)} = {}
                 THEN {Err("6d", STEPS_DIR, <<>>)} ELSE {})

\* 6f: fewer than 2 scenarios per use case is printed in yellow only
RECURSIVE SumLines(_)
SumLines(S) ==
  IF S = {} THEN 0 ELSE LET f == CHOOSE x \in S : TRUE IN ScenarioLines(f) + SumLines(S \ {f})

TOTAL_SCENARIOS == SumLines(FeatureFiles)
USE_CASE_COUNT == Cardinality(UseCaseFiles)
MinScenarioRatio == 2

Check6f ==
  IF USE_CASE_COUNT > 0 /\ TOTAL_SCENARIOS > 0 /\ (TOTAL_SCENARIOS \div USE_CASE_COUNT) < MinScenarioRatio
    THEN {Warn("6f", FEATURES_DIR, <<>>)} ELSE {}

Check6 ==
  /\ pc = "check6"
  /\ Section("6", Check6abcd \cup Check6f, "check7")

\* ---- CHECK 7: value objects throw domain errors -------------------------
VO_DIR == <<"src", "domain", "value-objects">>

Check7 ==
  /\ pc = "check7"
  /\ Section("7",
       IF IsDir(VO_DIR)
         THEN {ErrF("7", f) : f \in {v \in Under(VO_DIR) :
                 /\ EndsWith(v.name, <<".vo", ".ts">>) \/ EndsWith(v.name, <<".value-object", ".ts">>)
                 /\ GrepQ(v, "throw", Re("generic", <<>>, <<>>))}}
         ELSE {},
       "check8")

\* ---- CHECK 8: MCP tool error handling -----------------------------------
MCP_DIR == <<"src", "mcp">>

ToolFiles == {f \in Under(TOOLS_DIR) : EndsWith(f.name, <<".tool", ".ts">>)}

HasTryCatch(f) ==
  GrepQ(f, "try", Re("lit", <<"try">>, <<>>)) /\ GrepQ(f, "catch", Re("lit", <<"catch">>, <<>>))

\* "(isError.*true|\{ error:|code:.*message:|formatError)"
HasStructuredError(f) ==
  \/ GrepQ(f, "isError", Re("then", <<"isError">>, <<"true">>))
  \/ GrepQ(f, "error:", Re("lit", <<"{", " ", "error:">>, <<>>))
  \/ GrepQ(f, "code:", Re("then", <<"code:">>, <<"message:">>))
  \/ GrepQ(f, "formatError", Re("lit", <<"formatError">>, <<>>))

Check8 ==
  /\ pc = "check8"
  /\ Section("8",
       IF IsDir(TOOLS_DIR)
         THEN {ErrF("8a", f) : f \in {x \in ToolFiles : ~HasTryCatch(x)}}
                \cup {ErrF("8b", f) : f \in {x \in ToolFiles : ~HasStructuredError(x)}}
         ELSE {},
       "check9")

\* ---- CHECK 9: MCP tools registered in server ----------------------------
\* grep -oE "class [A-Z][a-zA-Z]*<Suffix>" | head -1 | awk '{print $2}'
\* the matches of one line, as <<start, end>> positions of the class name
ClassMatches(t, suffix) ==
  {m \in (3..Len(t)) \X (4..Len(t)) :
     /\ t[m[1] - 2] = "class" /\ t[m[1] - 1] = " "
     /\ m[2] > m[1] /\ t[m[2]] = suffix
     /\ \A i \in m[1]..m[2] : t[i] \notin NonWord}

CLASS_NAME(f, suffix) ==
  LET hits == {k \in 1..Len(f.lines) :
                 "class" \in Range(f.lines[k].tok) /\ ClassMatches(f.lines[k].text, suffix) # {}}
  IN IF hits = {} THEN <<>>
     ELSE LET k == CHOOSE x \in hits : \A y \in hits : x <= y
              t == f.lines[k].text
              ms == ClassMatches(t, suffix)
              m == CHOOSE x \in ms : \A y \in ms : x[1] < y[1] \/ (x[1] = y[1] /\ x[2] >= y[2])
          IN SubSeq(t, m[1], m[2])

Check9 ==
  /\ pc = "check9"
  /\ Section("9",
       IF IsFile(MCP_DIR, SERVER_NAME) /\ IsDir(TOOLS_DIR)
         THEN LET srv == TheFile(MCP_DIR, SERVER_NAME)
                  named == {f \in ToolFiles : CLASS_NAME(f, "Tool") # <<>>}
                  Named(x) == GrepQ(srv, "Tool", Re("lit", CLASS_NAME(x, "Tool"), <<>>))
                  Resolved(x) ==
                    GrepQ(srv, "resolve", Re("then", <<"resolve">>, CLASS_NAME(x, "Tool")))
              IN {ErrF("9", f) : f \in {x \in named : ~Named(x)}}
                 \cup {WarnF("9", f) : f \in {x \in named : Named(x) /\ ~Resolved(x)}}
         ELSE {},
       "check10")

\* ---- CHECK 10: use cases exposed via MCP --------------------------------
Check10 ==
  /\ pc = "check10"
  /\ Section("10",
       IF IsDir(USE_CASES_DIR) /\ IsDir(TOOLS_DIR)
         THEN LET named == {f \in UseCaseFiles : CLASS_NAME(f, "UseCase") # <<>>}
                  tools == {f \in fs : f.dir = TOOLS_DIR /\ EndsWith(f.name, <<".tool", ".ts">>)}
              IN {WarnF("10", f) : f \in {x \in named :
                     \A tf \in tools :
                       ~GrepQ(tf, "UseCase", Re("lit", CLASS_NAME(x, "UseCase"), <<>>))}}
         ELSE {},
       "check11")

\* ---- CHECK 11: barrel exports are used ----------------------------------
\* prints a confirmation line at most; nothing is recorded
Check11 ==
  /\ pc = "check11"
  /\ Section("11", {}, "summary")

\* ---- SUMMARY ------------------------------------------------------------
\* a summary that reports success whatever was recorded
SummaryStatusAlwaysPass(errorsFound) == 0

SummaryStatus(errorsFound) == IF errorsFound = 0 THEN 0 ELSE 1

Summary ==
  /\ pc = "summary"
  /\ exitStatus' = SummaryStatus(ERRORS_FOUND)
  /\ pc' = "exited"
  /\ UNCHANGED <<fs, dirs, ERRORS_FOUND, printed, ran, previous, lintVars, gen, gate, net, shown>>

\* ---- the run ------------------------------------------------------------
Init ==
  /\ lintChecked = {} /\ lintReported = {}
  /\ \E p \in ProjectsWith(MaxDeviations) : fs = p.files /\ dirs = p.dirs
  /\ pc = "check1"
  /\ ERRORS_FOUND = 0
  /\ printed = {}
  /\ ran = {}
  /\ exitStatus = -1
  /\ previous = <<>>
  /\ gen = <<>> /\ gate = <<>> /\ net = <<>> /\ shown = <<>>

Next ==
  \/ Check1 \/ Check2 \/ Check3 \/ Check4 \/ Check5 \/ Check6
  \/ Check7 \/ Check8 \/ Check9 \/ Check10 \/ Check11 \/ Summary

Spec == Init /\ [][Next]_vars

\* ---- the script run again ------------------------------------------------
\* `npm run check:code-quality` starts a new bash process: ERRORS_FOUND is
\* set to 0 again and nothing of the earlier run is kept but the project.
Restart(removed) ==
  /\ pc = "exited" /\ previous = <<>>
  /\ previous' = <<[printed |-> printed, exitStatus |-> exitStatus, removed |-> removed,
                    files |-> fs, dirs |-> dirs]>>
  /\ pc' = "check1" /\ ERRORS_FOUND' = 0 /\ printed' = {} /\ ran' = {} /\ exitStatus' = -1
  /\ UNCHANGED <<lintVars, gen, gate, net, shown>>

Rerun == Restart(<<>>) /\ UNCHANGED <<fs, dirs>>

\* The barrels of the layers and of their direct subdirectories.
Barrels == {f.dir : f \in {x \in fs : x.name = INDEX /\ x.dir[1] = "src" /\ Len(x.dir) \in {2, 3}}}

\* A project that passed loses one barrel and is checked again.
RemoveBarrel(d) ==
  /\ d \in Barrels
  /\ exitStatus = 0 /\ Errors(printed) = {}
  /\ Restart(d)
  /\ fs' = {f \in fs : ~(f.dir = d /\ f.name = INDEX)}
  /\ dirs' = dirs \cup {d}

RunsInit ==
  /\ lintChecked = {} /\ lintReported = {}
  /\ \E p \in ProjectsWith(MaxEdits) : fs = p.files /\ dirs = p.dirs
  /\ pc = "check1" /\ ERRORS_FOUND = 0 /\ printed = {} /\ ran = {} /\ exitStatus = -1
  /\ previous = <<>>
  /\ gen = <<>> /\ gate = <<>> /\ net = <<>> /\ shown = <<>>

RunsSpec == RunsInit /\ [][Next \/ Rerun \/ \E d \in Barrels : RemoveBarrel(d)]_vars

\* ========================================================================
\* PART 4 - the scaffold the generator writes, checked by its own script
\* ========================================================================
\* A project name is a sequence of parts: runs of letters, runs of digits
\* and hyphens.  /^[a-z][a-z0-9-]*$/ : it starts with a letter.
NameLetters == {"demo", "bug", "tracker", "mock"}
NameParts == NameLetters \cup {"2", "-"}

\* a test that lets a name start with a digit or a hyphen
ValidNameAnyStart(name) == name # <<>> /\ \A i \in 1..Len(name) : name[i] \in NameParts

ValidName(name) ==
  /\ name # <<>>
  /\ name[1] \in NameLetters
  /\ \A i \in 1..Len(name) : name[i] \in NameParts

\* the valid names; two runs of letters next to each other are one run
ProjectNames ==
  {n \in UNION {[1..k -> NameParts] : k \in 1..MaxNameLen} :
     /\ ValidName(n)
     /\ \A i \in 1..(Len(n) - 1) : ~(n[i] \in NameLetters /\ n[i + 1] \in NameLetters)}

\* a line of a template, given by its text
Template(text) == [tok |-> text, q |-> "", spec |-> <<>>, ext |-> "", text |-> text]

getSourceFiles(name) ==
  { File(<<"src">>, INDEX,
      << Imp(<<"import">>, "'", <<"reflect-metadata">>, ""),
         Imp(<<"import", "{", "setupContainer", "}", "from">>, "'", <<".", "di", "container">>, ".js"),
         Imp(<<"import", "{", "startServer", "}", "from">>, "'", <<".", "mcp", "server">>, ".js"),
         Code(<<"setupContainer", "(", ")">>),
         Code(<<"startServer", "(", ")">>) >>),
    File(<<"src", "di">>, <<"container", ".ts">>,
      << Imp(<<"import", "{", "container", "}", "from">>, "'", <<"tsyringe">>, ""),
         Code(<<"export", "function", "setupContainer", "(", ")">>),
         Code(<<"//", "Example", "registration", ":">>),
         Code(<<"export", "{", "container", "}">>) >>),
    File(<<"src", "di">>, INDEX, << ReExport("container") >>),
    File(<<"src", "domain", "errors">>, <<"base", ".error", ".ts">>,
      << Code(<<"export", "type", "ErrorCategory", "=", "'", "validation", "'">>),
         Code(<<"export", "abstract", "class", "DomainError", "extends", "Error">>),
         Code(<<"abstract", "readonly", "code", ":", "string">>),
         Code(<<"abstract", "readonly", "suggestedFix", ":", "string">>),
         Code(<<"abstract", "readonly", "isRetryable", ":", "boolean">>),
         Code(<<"abstract", "readonly", "category", ":", "ErrorCategory">>),
         Code(<<"constructor", "(", "message", ":", "string", ")">>),
         Code(<<"toJSON", "(", ")">>) >>),
    File(<<"src", "domain", "errors">>, INDEX, << ReExport("base.error") >>),
    File(<<"src", "domain">>, INDEX,
      << Imp(<<"export", "*", "from">>, "'", <<".", "errors", "index">>, ".js") >>),
    File(<<"src", "application", "schemas">>, <<"common", ".schema", ".ts">>,
      << Imp(<<"import", "{", "z", "}", "from">>, "'", <<"zod">>, ""),
         Code(<<"export", "const", "paginationSchema", "=", "z", ".object(", ")">>),
         Code(<<"export", "const", "idSchema", "=", "z", ".string(", ")">>),
         Code(<<"export", "function", "validateInput", "(", "schema", ",", "input", ")">>),
         Code(<<"const", "result", "=", "schema", ".safeParse(", "input", ")">>) >>),
    File(<<"src", "application", "schemas">>, INDEX, << ReExport("common.schema") >>),
    File(<<"src", "application", "ports">>, INDEX,
      << Code(<<"//", "Export", "port", "interfaces", "here">>) >>),
    File(<<"src", "application">>, INDEX,
      << Imp(<<"export", "*", "from">>, "'", <<".", "ports", "index">>, ".js"),
         Imp(<<"export", "*", "from">>, "'", <<".", "schemas", "index">>, ".js") >>),
    File(<<"src", "infrastructure">>, INDEX,
      << Code(<<"//", "Export", "infrastructure", "adapters", "here">>) >>),
    File(<<"src", "mcp">>, <<"types", ".ts">>,
      << Code(<<"export", "interface", "ToolDefinition">>),
         Code(<<"export", "interface", "ToolResult">>),
         Code(<<"export", "function", "successResult", "(", "data", ")">>),
         Code(<<"export", "function", "errorResult", "(", "error", ")">>),
         Code(<<"isError", ":", "true">>) >>),
    File(<<"src", "mcp">>, <<"server", ".ts">>,
      << Imp(<<"import", "{", "McpServer", "}", "from">>, "'",
             <<"@modelcontextprotocol", "sdk", "server", "mcp">>, ".js"),
         Code(<<"const", "server", "=", "new", "McpServer", "(", "{">>),
         Template(<<"name", ":", " ", "'">> \o name \o <<"'", ",">>),
         Code(<<"*", "const", "tool", "=", "container", ".", "resolve", "(", "CreateExampleTool", ")">>),
         Code(<<"function", "registerTools", "(", ")">>),
         Code(<<"//", "Register", "your", "tools", "here">>),
         Code(<<"export", "async", "function", "startServer", "(", ")">>),
         Template(<<"console.error(", "'">> \o name
                    \o <<" ", "MCP", " ", "server", " ", "running", "'", ")">>) >>),
    File(<<"src", "mcp">>, INDEX, << ReExport("server"), ReExport("types") >>) }

getTestFiles ==
  { File(<<"tests">>, <<"setup", ".ts">>, << Imp(<<"import">>, "'", <<"reflect-metadata">>, "") >>),
    File(<<"tests", "step-definitions">>, <<"world", ".ts">>,
      << Code(<<"export", "class", "CustomWorld", "extends", "World">>),
         Code(<<"setWorldConstructor", "(", "CustomWorld", ")">>) >>),
    File(<<"tests", "step-definitions">>, <<"common", ".steps", ".ts">>,
      << Code(<<"Given", "(", "'", "a", "clean", "state", "'">>),
         Code(<<"Then", "(", "'", "the", "operation", "should", "succeed", "'">>),
         Code(<<"Then", "(", "'", "I", "should", "receive", "an", "error", "'">>) >>),
    File(<<"tests", "unit", "domain", "errors">>, <<"base", ".error", ".test", ".ts">>,
      << Code(<<"class", "TestError", "extends", "DomainError">>),
         Code(<<"readonly", "code", "=", "TEST_ERROR">>),
         Code(<<"describe", "(", "'", "DomainError", "'">>) >>),
    File(<<"tests", "mocks">>, <<"example", ".mock", ".ts">>,
      << Code(<<"//", "Example", "mock", "implementation">>),
         Code(<<"//", "export", "class", "MockExampleRepository">>),
         Code(<<"export", "{", "}">>) >>) }

exampleFeature ==
  File(<<"features">>, <<"example", ".feature">>,
    << Code(<<"@wip">>),
       Code(<<"Feature:", "Example", "Feature">>),
       Code(<<"Given", "a", "clean", "state">>),
       Code(<<"Scenario:", "Example", "successful", "scenario">>),
       Code(<<"Given", "I", "have", "valid", "input", "data">>),
       Code(<<"When", "I", "perform", "the", "operation">>),
       Code(<<"Then", "the", "operation", "should", "succeed">>),
       Code(<<"Scenario:", "Example", "error", "scenario">>),
       Code(<<"Given", "I", "have", "invalid", "input", "data">>),
       Code(<<"When", "I", "perform", "the", "operation">>),
       Code(<<"Then", "I", "should", "receive", "an", "error">>) >>)

\* What main() leaves under src/, tests/ and features/, the trees the
\* script reads: the files, and the folders no file is written to.
Scaffold(name) ==
  Project(getSourceFiles(name) \cup getTestFiles \cup {exampleFeature},
    { <<"src", "domain", "entities">>, <<"src", "domain", "value-objects">>,
      <<"src", "application", "use-cases">>, <<"src", "mcp", "tools">>,
      <<"tests", "unit", "domain", "entities">>, <<"tests", "unit", "domain", "value-objects">>,
      <<"tests", "unit", "application", "use-cases">>, <<"reports">> })

ScaffoldInit ==
  /\ lintChecked = {} /\ lintReported = {}
  /\ \E name \in ProjectNames : fs = Scaffold(name).files /\ dirs = Scaffold(name).dirs
  /\ pc = "check1" /\ ERRORS_FOUND = 0 /\ printed = {} /\ ran = {} /\ exitStatus = -1
  /\ previous = <<>>
  /\ gen = <<>> /\ gate = <<>> /\ net = <<>> /\ shown = <<>>

ScaffoldSpec == ScaffoldInit /\ [][Next]_vars

\* ========================================================================
\* PART 5 - the generator: main() of create-open-mcp
\* ========================================================================
\* What can be typed as a name: the parts of a valid name, a run of letters
\* with a capital and an underscore.  <<>> is no name at all.
GenInputs ==
  {<<>>} \cup UNION {[1..k -> NameParts \cup {"Demo", "_"}] : k \in 1..MaxArgParts}

directories ==
  << "src/domain/entities", "src/domain/value-objects", "src/domain/errors",
     "src/application/use-cases", "src/application/ports", "src/application/schemas",
     "src/infrastructure", "src/mcp/tools", "src/di",
     "tests/unit/domain/entities", "tests/unit/domain/value-objects",
     "tests/unit/application/use-cases", "tests/step-definitions", "tests/mocks",
     "features", "scripts", "reports", ".husky" >>

\* the keys of `files`, in the order they are written
fileMap ==
  << "package.json", "tsconfig.json", "tsconfig.eslint.json", "tsconfig.test.json",
     "eslint.config.js", "vitest.config.ts", "cucumber.cjs", ".prettierrc",
     "CLAUDE.md", "AGENTS.md", "CONVENTIONS.md", "TROUBLESHOOTING.md",
     "scripts/check-code-quality.sh", ".husky/pre-commit", ".gitignore", ".env.example",
     "src/index.ts", "src/di/container.ts", "src/di/index.ts",
     "src/domain/errors/base.error.ts", "src/domain/errors/index.ts", "src/domain/index.ts",
     "src/application/schemas/common.schema.ts", "src/application/schemas/index.ts",
     "src/application/ports/index.ts", "src/application/index.ts", "src/infrastructure/index.ts",
     "src/mcp/types.ts", "src/mcp/server.ts", "src/mcp/index.ts",
     "tests/setup.ts", "tests/step-definitions/world.ts", "tests/step-definitions/common.steps.ts",
     "tests/unit/domain/errors/base.error.test.ts", "tests/mocks/example.mock.ts",
     "features/example.feature" >>

childStepsHuskyFirst ==
  << [cmd |-> "chmod +x scripts/check-code-quality.sh", try |-> 0, warn |-> ""],
     [cmd |-> "chmod +x .husky/pre-commit",             try |-> 0, warn |-> ""],
     [cmd |-> "git init",                               try |-> 0, warn |-> ""],
     [cmd |-> "npx husky",        try |-> 7, warn |-> ""],
     [cmd |-> "npm install",      try |-> 6, warn |-> "npm install failed"],
     [cmd |-> "npm run lint:fix", try |-> 8, warn |-> ""],
     [cmd |-> "npm run format",   try |-> 8, warn |-> ""],
     [cmd |-> "git add .",        try |-> 9, warn |-> "Git commit failed"],
     [cmd |-> "git commit",       try |-> 9, warn |-> "Git commit failed"] >>

childStepsInstallUnguarded ==
  << [cmd |-> "chmod +x scripts/check-code-quality.sh", try |-> 0, warn |-> ""],
     [cmd |-> "chmod +x .husky/pre-commit",             try |-> 0, warn |-> ""],
     [cmd |-> "git init",                               try |-> 0, warn |-> ""],
     [cmd |-> "npm install",      try |-> 0, warn |-> ""],
     [cmd |-> "npx husky",        try |-> 7, warn |-> ""],
     [cmd |-> "npm run lint:fix", try |-> 8, warn |-> ""],
     [cmd |-> "npm run format",   try |-> 8, warn |-> ""],
     [cmd |-> "git add .",        try |-> 9, warn |-> "Git commit failed"],
     [cmd |-> "git commit",       try |-> 9, warn |-> "Git commit failed"] >>

\* Steps 4-9: the execSync calls in order.  try is 0 for a call outside of
\* any try block, else the number of the block; warn is what its catch prints.
childSteps ==
  << [cmd |-> "chmod +x scripts/check-code-quality.sh", try |-> 0, warn |-> ""],
     [cmd |-> "chmod +x .husky/pre-commit",             try |-> 0, warn |-> ""],
     [cmd |-> "git init",                               try |-> 0, warn |-> ""],
     [cmd |-> "npm install",      try |-> 6, warn |-> "npm install failed"],
     [cmd |-> "npx husky",        try |-> 7, warn |-> ""],
     [cmd |-> "npm run lint:fix", try |-> 8, warn |-> ""],
     [cmd |-> "npm run format",   try |-> 8, warn |-> ""],
     [cmd |-> "git add .",        try |-> 9, warn |-> "Git commit failed"],
     [cmd |-> "git commit",       try |-> 9, warn |-> "Git commit failed"] >>

\* main().catch: print the error, exit 1.  failed (the operations that threw)
\* is kept for the properties only.
Catch(g) == [g EXCEPT !.pc = "exited", !.exit = 1, !.out = @ \cup {<<"Error:", "err.message">>}]

GenInit ==
  /\ lintChecked = {} /\ lintReported = {} /\ ScriptIdle
  /\ gate = <<>> /\ net = <<>> /\ shown = <<>>
  /\ \E argv \in GenInputs :
       gen = [pc |-> "args", argv |-> argv, asked |-> FALSE, name |-> <<>>, dirs |-> {},
              files |-> {}, fetched |-> FALSE, children |-> <<>>, failed |-> {}, step |-> 1,
              out |-> {}, exit |-> -1]

\* lines 88-112: take the name from argv or ask for it, then test it
ParseArgs ==
  /\ gen.pc = "args"
  /\ \E answer \in GenInputs :
       LET ask == gen.argv = <<>> \/ gen.argv[1] = "-"
           name == IF ask THEN answer ELSE gen.argv
           g == [gen EXCEPT !.argv = <<>>, !.asked = ask, !.name = name]
       IN /\ ~ask => answer = <<>>
          /\ gen' = IF ~ValidName(name)
                      THEN [g EXCEPT !.pc = "exited", !.exit = 1, !.out = @ \cup
                             {<< "Error:", "Project", "name", "must", "start", "with", "a", "letter",
                                 "and", "contain", "only", "lowercase", "letters,", "numbers,",
                                 "and", "hyphens" >>}]
                      ELSE [g EXCEPT !.pc = "mkdir"]
  /\ UNCHANGED <<lintVars, scriptVars, gate, net, shown>>

\* step 1: mkdir -p of the next directory of the list; it may fail
Mkdir ==
  /\ gen.pc = "mkdir"
  /\ \/ gen' = [gen EXCEPT !.dirs = @ \cup {"."} \cup {directories[gen.step]},
                           !.step = IF gen.step = Len(directories) THEN 1 ELSE @ + 1,
                           !.pc = IF gen.step = Len(directories) THEN "write" ELSE @]
     \/ gen' = Catch([gen EXCEPT !.failed = @ \cup {"mkdir"}])
  /\ UNCHANGED <<lintVars, scriptVars, gate, net, shown>>

\* steps 2 and 3: getPackageJson has been awaited (it does not reject) when
\* the first file is written; then mkdir of the file's folder and writeFile,
\* either of which may fail
WriteFile ==
  /\ gen.pc = "write"
  /\ \/ gen' = [gen EXCEPT !.fetched = TRUE, !.files = @ \cup {fileMap[gen.step]},
                           !.step = IF gen.step = Len(fileMap) THEN 1 ELSE @ + 1,
                           !.pc = IF gen.step = Len(fileMap) THEN "exec" ELSE @]
     \/ gen' = Catch([gen EXCEPT !.fetched = TRUE, !.failed = @ \cup {"writeFile"}])
  /\ UNCHANGED <<lintVars, scriptVars, gate, net, shown>>

\* steps 4-9: the next execSync.  A failure outside of a try block reaches
\* main().catch; inside one it leaves the block, whose catch goes on.
Exec ==
  /\ gen.pc = "exec"
  /\ LET s == childSteps[gen.step]
         started == [gen EXCEPT !.children = Append(@, s.cmd)]
         after == {k \in (gen.step + 1)..Len(childSteps) : childSteps[k].try # s.try}
         skipTo == IF after = {} THEN Len(childSteps) + 1 ELSE CHOOSE k \in after : \A j \in after : k <= j
         At(g, k) == [g EXCEPT !.step = k, !.pc = IF k > Len(childSteps) THEN "banner" ELSE @]
     IN \/ gen' = At(started, gen.step + 1)
        \/ LET thrown == [started EXCEPT !.failed = @ \cup {s.cmd}]
           IN gen' = IF s.try = 0 THEN Catch(thrown)
                     ELSE At([thrown EXCEPT !.out = IF s.warn = "" THEN @ ELSE @ \cup {<<s.warn>>}], skipTo)
  /\ UNCHANGED <<lintVars, scriptVars, gate, net, shown>>

\* lines 224-254: the success banner; main() returns and the process ends
Banner ==
  /\ gen.pc = "banner"
  /\ gen' = [gen EXCEPT !.out = @ \cup {<<"Successfully", "created">>}, !.pc = "exited", !.exit = 0]
  /\ UNCHANGED <<lintVars, scriptVars, gate, net, shown>>

GenSpec == GenInit /\ [][ParseArgs \/ Mkdir \/ WriteFile \/ Exec \/ Banner]_vars

\* ========================================================================
\* PART 6 - the pre-commit gate of a generated project
\* ========================================================================
\* package.json scripts.  A script is its && chain of commands; a command is
\* <<"npm run", script>> or the words of a tool's command line.
scriptsLintFirst ==
  "build" :> << <<"tsc">>, <<"tsc-alias">> >> @@
  "typecheck" :> << <<"tsc", "--noEmit">> >> @@
  "lint" :> << <<"eslint", "src", "tests">> >> @@
  "format:check" :> << <<"prettier", "--check">> >> @@
  "test" :> << <<"npm run", "test:unit">>, <<"npm run", "test:features">> >> @@
  "test:unit" :> << <<"vitest", "run">> >> @@
  "test:features" :> << <<"cucumber-js">> >> @@
  "test:coverage" :> << <<"vitest", "run", "--coverage">> >> @@
  "check:code-quality" :> << <<"bash", "scripts/check-code-quality.sh">> >> @@
  "pre-commit" :> << <<"npm run", "lint">>, <<"npm run", "check:code-quality">>,
                     <<"npm run", "format:check">>, <<"npm run", "typecheck">>,
                     <<"npm run", "build">>, <<"npm run", "test">> >>

scripts ==
  "build" :> << <<"tsc">>, <<"tsc-alias">> >> @@
  "typecheck" :> << <<"tsc", "--noEmit">> >> @@
  "lint" :> << <<"eslint", "src", "tests">> >> @@
  "format:check" :> << <<"prettier", "--check">> >> @@
  "test" :> << <<"npm run", "test:unit">>, <<"npm run", "test:features">> >> @@
  "test:unit" :> << <<"vitest", "run">> >> @@
  "test:features" :> << <<"cucumber-js">> >> @@
  "test:coverage" :> << <<"vitest", "run", "--coverage">> >> @@
  "check:code-quality" :> << <<"bash", "scripts/check-code-quality.sh">> >> @@
  "pre-commit" :> << <<"npm run", "check:code-quality">>, <<"npm run", "lint">>,
                     <<"npm run", "format:check">>, <<"npm run", "typecheck">>,
                     <<"npm run", "build">>, <<"npm run", "test">> >>

\* eslint.config.js: the rules each file group sets itself, with their severity
eslintRules ==
  [src |->
     "@typescript-eslint/explicit-function-return-type" :> "off" @@
     "@typescript-eslint/no-explicit-any" :> "error" @@
     "@typescript-eslint/no-unused-vars" :> "error" @@
     "no-unused-vars" :> "off" @@
     "boundaries/element-types" :> "error" @@
     "boundaries/entry-point" :> "error" @@
     "boundaries/external" :> "error" @@
     "boundaries/no-private" :> "error" @@
     "simple-import-sort/imports" :> "error" @@
     "simple-import-sort/exports" :> "error" @@
     "no-console" :> "error" @@
     "complexity" :> "error" @@
     "max-depth" :> "error" @@
     "max-lines" :> "error" @@
     "max-lines-per-function" :> "error" @@
     "max-params" :> "error",
   tests |->
     "@typescript-eslint/explicit-function-return-type" :> "off" @@
     "@typescript-eslint/no-explicit-any" :> "off" @@
     "@typescript-eslint/no-unused-vars" :> "error" @@
     "@typescript-eslint/no-unused-expressions" :> "off" @@
     "no-unused-vars" :> "off" @@
     "max-lines" :> "warn" @@
     "simple-import-sort/imports" :> "error"]

\* vitest.config.ts of the generated project: the v8 provider and a threshold
\* of 80 on each metric; coverage.enabled is not set, so that coverage is
\* collected, and the thresholds applied, only under --coverage.
vitestCoverage ==
  [provider |-> "v8", enabled |-> FALSE,
   thresholds |-> [statements |-> 80, branches |-> 80, functions |-> 80, lines |-> 80]]

\* .husky/pre-commit runs `npm run pre-commit`.  coverage is the measured
\* percentage of each metric; findings are the rule violations of the files,
\* as <<file group, rule>>.
GateInit ==
  /\ lintChecked = {} /\ lintReported = {} /\ ScriptIdle
  /\ gen = <<>> /\ net = <<>> /\ shown = <<>>
  /\ \E coverage \in [DOMAIN vitestCoverage.thresholds -> {79, 80}] :
     \E findings \in SUBSET { <<"src", "max-lines">>, <<"tests", "max-lines">>,
                              <<"tests", "no-unused-vars">> } :
       gate = [stack |-> << <<"npm run", "pre-commit">> >>, ran |-> <<>>, tools |-> <<>>,
               coverage |-> coverage, findings |-> findings, reported |-> {},
               thresholdsApplied |-> FALSE, failed |-> <<>>, status |-> -1]

\* npm run <script>: the script's commands take the place of the command
NpmRun ==
  /\ gate # <<>> /\ gate.stack # <<>> /\ Head(gate.stack)[1] = "npm run"
  /\ gate' = [gate EXCEPT !.stack = scripts[Head(@)[2]] \o Tail(@),
                           !.ran = Append(@, Head(gate.stack)[2])]
  /\ UNCHANGED <<lintVars, scriptVars, gen, net, shown>>

\* A tool runs and ends with a status.  eslint reports the findings of rules
\* that are not off and fails on one of severity error; vitest fails on a
\* failing test or, with coverage on, on a metric under its threshold; any
\* other tool may fail.  && goes on after status 0 only; the status of the
\* chain is that of its last command run.
RunTool ==
  /\ gate # <<>> /\ gate.stack # <<>> /\ Head(gate.stack)[1] # "npm run"
  /\ LET cmd == Head(gate.stack)
         started == [gate EXCEPT !.tools = Append(@, cmd)]
         Severity(f) == eslintRules[f[1]][f[2]]
         reported == {f \in gate.findings : Severity(f) # "off"}
         withCoverage == vitestCoverage.enabled \/ "--coverage" \in Range(cmd)
         under == {m \in DOMAIN gate.coverage : gate.coverage[m] < vitestCoverage.thresholds[m]}
         Ok(g) == [g EXCEPT !.stack = Tail(@), !.status = IF Tail(g.stack) = <<>> THEN 0 ELSE @]
         Fail(g) == [g EXCEPT !.stack = <<>>, !.status = 1, !.failed = cmd]
     IN CASE cmd[1] = "eslint" ->
               gate' = IF \E f \in reported : Severity(f) = "error"
                         THEN Fail([started EXCEPT !.reported = reported])
                         ELSE Ok([started EXCEPT !.reported = reported])
          [] cmd[1] = "vitest" ->
               \/ gate' = IF withCoverage /\ under # {} THEN Fail(started)
                          ELSE Ok([started EXCEPT !.thresholdsApplied = withCoverage])
               \/ gate' = Fail(started)
          [] OTHER -> gate' = Ok(started) \/ gate' = Fail(started)
  /\ UNCHANGED <<lintVars, scriptVars, gen, net, shown>>

GateSpec == GateInit /\ [][NpmRun \/ RunTool]_vars

\* ========================================================================
\* PART 7 - how check-code-quality.sh lists the lines a grep matched
\* ========================================================================
\* One listing: the place in the script, the N of its `head -N` (0 where the
\* matches are echoed without head), whether it declares `local count`
\* outside of a function, and the number of lines the grep matched.
ListInit ==
  /\ lintChecked = {} /\ lintReported = {} /\ ScriptIdle
  /\ gen = <<>> /\ gate = <<>> /\ net = <<>>
  /\ \E site \in { [check |-> "check_pattern", head |-> 5, bare |-> FALSE],
                    [check |-> "check_literal", head |-> 5, bare |-> FALSE],
                    [check |-> "1c-2", head |-> 5, bare |-> TRUE],
                    [check |-> "2e", head |-> 0, bare |-> FALSE],
                    [check |-> "2f", head |-> 0, bare |-> FALSE],
                    [check |-> "2g domain", head |-> 5, bare |-> FALSE],
                    [check |-> "2g application", head |-> 5, bare |-> FALSE],
                    [check |-> "3c", head |-> 10, bare |-> FALSE],
                    [check |-> "7", head |-> 0, bare |-> FALSE] } :
     \E total \in 0..MaxMatches :
       shown = [site |-> site, total |-> total, pc |-> "grep", lines |-> 0,
                more |-> FALSE, overflow |-> 0]

\* if [ -n "$results" ]: the heading, then echo "$results" | head -N, or
\* echo "$results" where there is no head
ListMatches ==
  /\ shown # <<>> /\ shown.pc = "grep"
  /\ shown' =
       IF shown.total = 0 THEN [shown EXCEPT !.pc = "done"]
       ELSE IF shown.site.head = 0 THEN [shown EXCEPT !.lines = shown.total, !.pc = "done"]
       ELSE [shown EXCEPT !.lines = IF shown.total < shown.site.head THEN shown.total ELSE shown.site.head,
                          !.pc = "count"]
  /\ UNCHANGED <<lintVars, scriptVars, gen, gate, net>>

\* [local] count=$(... | wc -l); if [ "$count" -gt N ]: "... and $((count - N))
\* more occurrences".  `local` outside of a function fails and, under set -e,
\* ends the script there.
CountOverflow ==
  /\ shown # <<>> /\ shown.pc = "count"
  /\ shown' =
       IF shown.site.bare /\ LocalOutsideFunctionStatus # 0 THEN [shown EXCEPT !.pc = "aborted"]
       ELSE IF shown.total > shown.site.head
         THEN [shown EXCEPT !.more = TRUE, !.overflow = shown.total - shown.site.head, !.pc = "done"]
         ELSE [shown EXCEPT !.pc = "done"]
  /\ UNCHANGED <<lintVars, scriptVars, gen, gate, net>>

ListSpec == ListInit /\ [][ListMatches \/ CountOverflow]_vars

\* ========================================================================
\* PART 8 - getPackageJson: the versions fetched from the npm registry
\* ========================================================================
dependencies ==
  << "@modelcontextprotocol/sdk", "dotenv", "reflect-metadata", "tsyringe", "zod" >>

devDependencies ==
  << "@cucumber/cucumber", "@eslint/js", "@types/chai", "@types/node",
     "@typescript-eslint/eslint-plugin", "@typescript-eslint/parser", "@vitest/coverage-v8",
     "chai", "eslint", "eslint-import-resolver-typescript", "eslint-plugin-boundaries",
     "eslint-plugin-simple-import-sort", "husky", "lint-staged", "prettier", "tsc-alias",
     "tsx", "typescript", "vitest" >>

\* A version range is <<"^", version>>.
getFallbackVersion(pkg) ==
  LET fallbacks ==
        "@modelcontextprotocol/sdk" :> <<"^", "1.25.2">> @@ "dotenv" :> <<"^", "17.2.3">> @@
        "reflect-metadata" :> <<"^", "0.2.2">> @@ "tsyringe" :> <<"^", "4.10.0">> @@
        "zod" :> <<"^", "4.3.5">> @@ "@cucumber/cucumber" :> <<"^", "12.5.0">> @@
        "@eslint/js" :> <<"^", "9.27.0">> @@ "@types/chai" :> <<"^", "5.2.3">> @@
        "@types/node" :> <<"^", "22.0.0">> @@
        "@typescript-eslint/eslint-plugin" :> <<"^", "8.32.0">> @@
        "@typescript-eslint/parser" :> <<"^", "8.32.0">> @@
        "@vitest/coverage-v8" :> <<"^", "4.0.17">> @@ "chai" :> <<"^", "6.2.2">> @@
        "eslint" :> <<"^", "9.27.0">> @@ "eslint-import-resolver-typescript" :> <<"^", "4.4.4">> @@
        "eslint-plugin-boundaries" :> <<"^", "5.0.1">> @@
        "eslint-plugin-simple-import-sort" :> <<"^", "12.1.0">> @@ "husky" :> <<"^", "9.1.7">> @@
        "lint-staged" :> <<"^", "16.2.7">> @@ "prettier" :> <<"^", "3.5.3">> @@
        "tsc-alias" :> <<"^", "1.8.16">> @@ "tsx" :> <<"^", "4.19.4">> @@
        "typescript" :> <<"^", "5.9.3">> @@ "vitest" :> <<"^", "4.0.17">>
  IN IF pkg \in DOMAIN fallbacks THEN fallbacks[pkg] ELSE <<"^", "1.0.0">>

batchSize == 5

\* The loop of fetchVersions at its head: c.i is the index of the first
\* package not yet requested.  It requests the next batchSize packages at
\* once, or returns the results when none is left.
fetchVersionsFullBatchesOnly(c) ==
  IF c.i + batchSize - 1 > Len(c.packages) THEN [c EXCEPT !.done = TRUE]
  ELSE [c EXCEPT !.i = @ + batchSize,
                 !.inflight = {c.packages[j] : j \in c.i..(c.i + batchSize - 1)}]

fetchVersions(c) ==
  IF c.i > Len(c.packages) THEN [c EXCEPT !.done = TRUE]
  ELSE [c EXCEPT !.i = @ + batchSize,
                 !.inflight = {c.packages[j] : j \in {k \in 1..Len(c.packages) :
                                                       c.i <= k /\ k < c.i + batchSize}}]

\* getPackageJson calls fetchVersions on both lists before it awaits either.
\* The registry's answer to each request is fixed beforehand: a body with a
\* version for most packages, and for three of them any of that, a network
\* error, a status that is not ok or a body that does not parse.
FetchInit ==
  /\ lintChecked = {} /\ lintReported = {} /\ ScriptIdle
  /\ gen = <<>> /\ gate = <<>> /\ shown = <<>>
  /\ \E responses \in [{"dotenv", "@cucumber/cucumber", "vitest"} ->
                         {"version", "network error", "status 404", "bad body"}] :
       net = [pc |-> "fetching", responses |-> responses,
              deps |-> fetchVersions([packages |-> dependencies, i |-> 1, inflight |-> {},
                                      results |-> <<>>, done |-> FALSE]),
              devDeps |-> fetchVersions([packages |-> devDependencies, i |-> 1, inflight |-> {},
                                         results |-> <<>>, done |-> FALSE])]

\* One request settles.  A response that is ok and parses gives ^version,
\* anything else the fallback.  With the last of its batch the loop of its
\* fetchVersions goes on; when both have returned getPackageJson resolves.
getLatestVersion ==
  /\ net # <<>> /\ net.pc = "fetching"
  /\ \E list \in {"deps", "devDeps"} : \E pkg \in net[list].inflight :
       LET response == IF pkg \in DOMAIN net.responses THEN net.responses[pkg] ELSE "version"
           version == IF response = "version" THEN <<"^", "99.0.0">> ELSE getFallbackVersion(pkg)
           settled == [net[list] EXCEPT !.inflight = @ \ {pkg}, !.results = @ @@ (pkg :> version)]
           n == [net EXCEPT ![list] = IF settled.inflight = {} THEN fetchVersions(settled) ELSE settled]
       IN net' = IF n.deps.done /\ n.devDeps.done THEN [n EXCEPT !.pc = "resolved"] ELSE n
  /\ UNCHANGED <<lintVars, scriptVars, gen, gate, shown>>

FetchSpec == FetchInit /\ [][getLatestVersion]_vars

\* ------------------------------------------------------------------------
\* Properties of the boundary configuration
\* ------------------------------------------------------------------------
FiveLayers == {"domain", "application", "infrastructure", "mcp", "di"}

\* The dependency table of the README and of the design document.
DocumentedLattice ==
  [domain         |-> {"domain"},
   application    |-> {"application", "domain"},
   infrastructure |-> {"infrastructure", "application", "domain"},
   mcp            |-> {"mcp", "application", "di"},
   di             |-> {"di", "application", "infrastructure", "mcp"}]

\* C1: an import edge from a file of layer A (one of the five layers) to a
\* file of layer B is accepted by boundaries/element-types if and only if B
\* is in A's documented allowed set; every other edge is reported, whatever
\* else has been linted.
C1_LatticeEnforced ==
  \A e \in lintChecked :
    (e.kind = "internal" /\ ElementType(e.from) \in FiveLayers) =>
      ( (<<"boundaries/element-types", e>> \notin lintReported)
          <=> (ElementType(e.to) \in DocumentedLattice[ElementType(e.from)]) )

\* A valid and an invalid edge out of the same layer have both been linted
\* and only the invalid one is reported.
C1_Witness ==
  \E e1, e2 \in lintChecked :
    /\ e1.kind = "internal" /\ e2.kind = "internal"
    /\ ElementType(e1.from) = "application" /\ ElementType(e2.from) = "application"
    /\ ElementType(e1.to) = "domain" /\ ElementType(e2.to) = "infrastructure"
    /\ <<"boundaries/element-types", e1>> \notin lintReported
    /\ <<"boundaries/element-types", e2>> \in lintReported

\* C2: every import of an external package from a file of the domain layer
\* is reported by boundaries/external, whatever the package name.
C2_DomainExternalDenied ==
  \A e \in lintChecked :
    (e.kind = "external" /\ ElementType(e.from) = "domain") =>
      <<"boundaries/external", e>> \in lintReported

\* ------------------------------------------------------------------------
\* Properties of check-code-quality.sh
\* ------------------------------------------------------------------------
Exited == pc = "exited"
AllChecks == {"1", "2", "3", "4", "5", "6", "7", "8", "9", "10", "11"}
Reported(check, f) == ErrF(check, f) \in printed
SrcFiles == {f \in fs : f.dir[1] = "src"}

\* C3: a run ends with status 0 if no check recorded a violation and with
\* status 1 if at least one did; no other status is reachable.  When the
\* summary is reached, ERRORS_FOUND is 0 exactly in the runs that end with 0.
C3_BinaryExit ==
  Exited => /\ exitStatus \in {0, 1}
            /\ (exitStatus = 0 <=> Errors(printed) = {})
            /\ (exitStatus = 1 <=> Errors(printed) # {})
            /\ (ran = AllChecks => (exitStatus = 0 <=> ERRORS_FOUND = 0))

\* The summary has been reached with recorded violations and the run has
\* failed.
C3_Witness ==
  Exited /\ ran = AllChecks /\ ERRORS_FOUND = 1 /\ Errors(printed) # {} /\ exitStatus = 1

\* C4: a violation found by one check never stops the run: every check from
\* CHECK 1 to CHECK 11 is executed before the process exits.
C4_AllChecksRun == Exited => ran = AllChecks

\* C5: every finding the script prints is commit-blocking: a run that printed
\* a finding, at whatever severity, has ERRORS_FOUND = 1 and exits 1.
C5_NoWarningSeverity ==
  (Exited /\ printed # {}) => (exitStatus = 1 /\ Errors(printed) # {})

\* C6: a layer directory, or a direct subdirectory of any of the five layers
\* that holds a .ts file other than index.ts, without index.ts makes the run
\* record a barrel-presence violation for it and exit 1.
LayerDirs == {<<"src", layer>> : layer \in FiveLayers}
BarrelRequired ==
  LayerDirs \cup
    {d \in UNION {Subdirs(ld) : ld \in LayerDirs} :
       \E f \in fs : f.dir = d /\ f.name[Len(f.name)] = ".ts" /\ f.name # INDEX}

C6_BarrelPresence ==
  Exited =>
    \A d \in BarrelRequired :
      ~IsFile(d, INDEX) =>
        /\ Err("3a", d, INDEX) \in printed \/ Err("3b", d, INDEX) \in printed
        /\ exitStatus = 1

\* C7: a source file that imports an individual file of a barrel subdirectory
\* other than its own is recorded as a direct import and the run exits 1; a
\* file whose imports all target a barrel or a file of its own subdirectory
\* is not recorded.
RECURSIVE Walk(_, _)
Walk(dir, spec) ==
  IF Len(spec) <= 1 THEN dir
  ELSE Walk(IF Head(spec) = "." THEN dir
            ELSE IF Head(spec) = ".." THEN SubSeq(dir, 1, Len(dir) - 1)
            ELSE Append(dir, Head(spec)),
            Tail(spec))

IsRelative(l) == l.spec # <<>> /\ l.spec[1] \in {".", ".."}

ReachesInto(f, l) ==
  /\ IsRelative(l)
  /\ LET target == Walk(f.dir, l.spec)
     IN /\ target # <<>> /\ target[Len(target)] \in BarrelSubdirs
        /\ target # f.dir
        /\ l.spec[Len(l.spec)] # "index"

BypassesBarrel(f) == \E k \in 1..Len(f.lines) : ReachesInto(f, f.lines[k])

C7_BarrelUsage ==
  Exited =>
    \A f \in SrcFiles :
      /\ BypassesBarrel(f) => (Reported("3c", f) /\ exitStatus = 1)
      /\ ~BypassesBarrel(f) => ~Reported("3c", f)

\* C8: a use case that defines execute and validates its input with a schema
\* has no missing-validation violation; without that call the run records the
\* violation for the file and exits 1.
DefinesExecute(f) == \E k \in 1..Len(f.lines) : "execute" \in Range(f.lines[k].tok)

ValidatesInput(f) ==
  \E k \in 1..Len(f.lines) :
    LET tok == f.lines[k].tok
    IN \E i \in 2..(Len(tok) - 1) :
         /\ tok[i] \in {".parse(", ".safeParse("}
         /\ tok[i - 1] = "createSchema" /\ tok[i + 1] = "input"

C8_ValidationEntry ==
  Exited =>
    \A f \in {u \in fs : u.dir = USE_CASES_DIR /\ EndsWith(u.name, <<".use-case", ".ts">>)} :
      DefinesExecute(f) =>
        /\ ValidatesInput(f) => ~Reported("4", f)
        /\ ~ValidatesInput(f) => (Reported("4", f) /\ exitStatus = 1)

\* C9: when the base domain error is missing, or the base or a domain error
\* definition under src/domain/errors lacks one of code, suggestedFix,
\* isRetryable, category, the run records a violation and exits 1.
Declares(f, field) ==
  \E k \in 1..Len(f.lines) :
    LET tok == f.lines[k].tok
    IN \E i \in 2..Len(tok) : tok[i] = field /\ tok[i - 1] \in {"readonly", "abstract"}

DomainErrorDefinitions ==
  {f \in fs : /\ f.dir = ERRORS_DIR
              /\ f.name # BASE_ERROR
              /\ \E k \in 1..Len(f.lines) :
                   Occurs(<<"extends", "DomainError">>, f.lines[k].tok, 4)}

ErrorShapeBroken ==
  \/ ~IsFile(ERRORS_DIR, BASE_ERROR)
  \/ \E field \in FieldNames : ~Declares(TheFile(ERRORS_DIR, BASE_ERROR), field)
  \/ \E f \in DomainErrorDefinitions : \E field \in FieldNames : ~Declares(f, field)

C9_ErrorShape ==
  (Exited /\ ErrorShapeBroken) => (Errors(printed) # {} /\ exitStatus = 1)

\* C10: a tool file without try/catch or without a structured error response
\* makes the run record a violation and exit 1; a tool whose execute body is
\* wrapped in try/catch and whose catch returns the structured error payload,
\* `return errorResult(error)` included, has no CHECK 8 violation.
WrapsInTryCatch(f) ==
  \E i \in 1..Len(f.lines) : \E j \in 1..Len(f.lines) :
    i < j /\ "try" \in Range(f.lines[i].tok) /\ "catch" \in Range(f.lines[j].tok)

CatchReturnsStructured(f) ==
  \E j \in 1..(Len(f.lines) - 1) :
    /\ "catch" \in Range(f.lines[j].tok)
    /\ LET tok == f.lines[j + 1].tok
       IN /\ tok[1] = "return"
          /\ "errorResult" \in Range(tok) \/ "isError" \in Range(tok)

C10_ToolErrorHandling ==
  Exited =>
    \A f \in {t \in fs : t.dir = TOOLS_DIR /\ EndsWith(t.name, <<".tool", ".ts">>)} :
      /\ (~WrapsInTryCatch(f) \/ ~CatchReturnsStructured(f)) =>
           (Errors(printed) # {} /\ exitStatus = 1)
      /\ (WrapsInTryCatch(f) /\ CatchReturnsStructured(f)) =>
           (~Reported("8a", f) /\ ~Reported("8b", f))

\* C11: a tool class defined in src/mcp/tools/*.tool.ts makes the run record
\* a violation and exit 1 unless src/mcp/server.ts both imports the class
\* and resolves it from the container.
ClassOf(f) ==
  LET ks == {k \in 1..Len(f.lines) : \E i \in 1..(Len(f.lines[k].tok) - 1) : f.lines[k].tok[i] = "class"}
  IN IF ks = {} THEN ""
     ELSE LET tok == f.lines[CHOOSE k \in ks : \A j \in ks : k <= j].tok
          IN tok[(CHOOSE i \in 1..(Len(tok) - 1) : tok[i] = "class") + 1]

ToolDefinitions ==
  {f \in fs : f.dir = TOOLS_DIR /\ EndsWith(f.name, <<".tool", ".ts">>) /\ ClassOf(f) # ""}

ServerImports(c) ==
  /\ IsFile(MCP_DIR, SERVER_NAME)
  /\ \E k \in 1..Len(TheFile(MCP_DIR, SERVER_NAME).lines) :
       LET l == TheFile(MCP_DIR, SERVER_NAME).lines[k]
       IN l.tok[1] = "import" /\ c \in Range(l.tok)

ServerResolves(c) ==
  /\ IsFile(MCP_DIR, SERVER_NAME)
  /\ \E k \in 1..Len(TheFile(MCP_DIR, SERVER_NAME).lines) :
       LET tok == TheFile(MCP_DIR, SERVER_NAME).lines[k].tok
       IN \E i \in 1..(Len(tok) - 2) : tok[i] = "resolve" /\ tok[i + 1] = "(" /\ tok[i + 2] = c

C11_ToolsRegistered ==
  Exited =>
    \A f \in ToolDefinitions :
      ~(ServerImports(ClassOf(f)) /\ ServerResolves(ClassOf(f))) =>
        (Errors(printed) # {} /\ exitStatus = 1)

\* C12: a use-case class that no tool file references is reported as
\* unexposed and the run exits 1.
UseCaseDefinitions ==
  {f \in fs : f.dir = USE_CASES_DIR /\ EndsWith(f.name, <<".use-case", ".ts">>) /\ ClassOf(f) # ""}

ReferencedByTool(c) ==
  \E t \in fs :
    /\ t.dir = TOOLS_DIR /\ EndsWith(t.name, <<".tool", ".ts">>)
    /\ \E k \in 1..Len(t.lines) : c \in Range(t.lines[k].tok)

C12_UseCaseExposure ==
  Exited =>
    \A f \in UseCaseDefinitions :
      ~ReferencedByTool(ClassOf(f)) =>
        /\ WarnF("10", f) \in printed \/ ErrF("10", f) \in printed
        /\ exitStatus = 1

\* C13: a feature file of the features directory without any line
\* `Scenario:` or `Scenario Outline:` is reported by name and the run exits 1.
HasNoScenario(f) ==
  \A k \in 1..Len(f.lines) :
    LET tok == f.lines[k].tok
    IN ~(tok # <<>> /\ (tok[1] = "Scenario:" \/ (Len(tok) > 1 /\ tok[1] = "Scenario" /\ tok[2] = "Outline:")))

C13_FeatureScenarios ==
  Exited =>
    \A f \in {x \in fs : x.dir = FEATURES_DIR /\ EndsWith(x.name, <<".feature">>)} :
      HasNoScenario(f) => (Reported("6c", f) /\ exitStatus = 1)

\* C14: the run executes the feature runner in dry-run mode and, when a step
\* of a feature file has no step definition, sets ERRORS_FOUND and exits 1.
StepKeywords == {"Given", "When", "Then", "And", "But"}

StepsOf(f) ==
  {Tail(f.lines[k].tok) : k \in {j \in 1..Len(f.lines) :
     f.lines[j].tok # <<>> /\ f.lines[j].tok[1] \in StepKeywords}}

\* a definition Given('<words>', ...) in a *.steps.ts file
DefinedSteps ==
  UNION {{SubSeq(f.lines[k].tok, 3, Len(f.lines[k].tok) - 1) :
            k \in {j \in 1..Len(f.lines) :
              LET tok == f.lines[j].tok
              IN Len(tok) >= 3 /\ tok[1] \in StepKeywords /\ tok[2] = "(" /\ tok[Len(tok)] = ")"}} :
         f \in {x \in fs : x.dir = STEPS_DIR /\ EndsWith(x.name, <<".steps", ".ts">>)}}

UndefinedSteps ==
  UNION {StepsOf(f) : f \in {x \in fs : x.dir = FEATURES_DIR /\ EndsWith(x.name, <<".feature">>)}}
    \ DefinedSteps

C14_UndefinedSteps ==
  (Exited /\ UndefinedSteps # {}) => (Errors(printed) # {} /\ exitStatus = 1)

\* C15: a file under src that no module reachable from the entry point
\* imports, and that is not a test utility, is reported as dead code and the
\* run exits 1; an orphan that is a test utility is not reported.
RECURSIVE FileName(_)
FileName(name) == IF name = <<>> THEN "" ELSE Head(name) \o FileName(Tail(name))

ImportsOf(f) ==
  {g \in SrcFiles :
     \E k \in 1..Len(f.lines) :
       LET l == f.lines[k]
       IN /\ IsRelative(l)
          /\ g.dir = Walk(f.dir, l.spec)
          /\ FileName(g.name) = l.spec[Len(l.spec)] \o ".ts"}

RECURSIVE ReachableFrom(_)
ReachableFrom(S) ==
  LET more == S \cup UNION {ImportsOf(f) : f \in S}
  IN IF more = S THEN S ELSE ReachableFrom(more)

EntryPoint == {f \in fs : f.dir = <<"src">> /\ f.name = INDEX}
Orphans == SrcFiles \ ReachableFrom(EntryPoint)
IsTestUtility(f) == \E i \in 1..Len(f.name) : f.name[i] \in {"in-memory", ".mock", ".test", ".spec"}

C15_DeadCode ==
  Exited =>
    \A f \in Orphans :
      /\ ~IsTestUtility(f) => (Reported("12", f) /\ exitStatus = 1)
      /\ IsTestUtility(f) => ~Reported("12", f)

\* C16: a second run on the unchanged project prints the same findings and
\* ends with the same exit status as the first, and no step of a run changes
\* the project.
SameOutcomeTwice ==
  (Exited /\ previous # <<>> /\ previous[1].removed = <<>>) =>
    /\ printed = previous[1].printed
    /\ exitStatus = previous[1].exitStatus
    /\ fs = previous[1].files /\ dirs = previous[1].dirs

BarrelFindings(d) == {Err("3a", d, INDEX), Err("3b", d, INDEX)}
AfterRemoval(d) ==
  /\ Exited /\ previous # <<>> /\ previous[1].removed = d
  /\ d \in BarrelRequired
C17_RemoveOneBarrel ==
  \A d \in BarrelRequired :
    AfterRemoval(d) =>
      /\ Cardinality(printed \cap BarrelFindings(d)) = 1
      /\ Errors(printed) \subseteq BarrelFindings(d)
      /\ printed \ BarrelFindings(d) = previous[1].printed
      /\ exitStatus = 1

\* the same, for the directories the loops of check 3 visit
C17_VisitedBarrels ==
  \A d \in BarrelRequired :
    (AfterRemoval(d) /\ (Len(d) = 3 => d[2] \in SubdirBarrelLayers)) =>
      /\ Cardinality(printed \cap BarrelFindings(d)) = 1
      /\ Errors(printed) \subseteq BarrelFindings(d)
      /\ printed \ BarrelFindings(d) = previous[1].printed
      /\ exitStatus = 1
C17_Witness ==
  \E d \in BarrelRequired :
    /\ AfterRemoval(d) /\ Len(d) = 3
    /\ Err("3b", d, INDEX) \in printed

\* C18: run on the scaffold written for a valid project name, the script
\* records no violation and exits 0.
C18_ScaffoldPasses ==
  (Exited /\ \E name \in ProjectNames : fs = Scaffold(name).files) =>
    (Errors(printed) = {} /\ exitStatus = 0)

\* the same, for the names that hold no word check 1 looks for: a part that
\* is such a word and has a hyphen or an end of the name on either side
MarkerAsWord(name) ==
  \E i \in 1..Len(name) :
    /\ name[i] \in {"bug", "mock"}
    /\ (i = 1 \/ name[i - 1] = "-")
    /\ (i = Len(name) \/ name[i + 1] = "-")
C18_CleanNamesPass ==
  \A name \in ProjectNames :
    (Exited /\ fs = Scaffold(name).files) =>
      IF MarkerAsWord(name)
        THEN Errors(printed) # {} /\ exitStatus = 1
        ELSE printed = {} /\ exitStatus = 0 /\ ran = AllChecks
C18_Witness ==
  /\ Exited /\ ran = AllChecks /\ exitStatus = 0
  /\ fs = Scaffold(<<"demo", "-", "2">>).files

\* C19: every layer of the boundary configuration, entry included, is a
\* member of its own allowed set, and an import between two files of one
\* layer is not reported.
SameLayer(e) == e.kind = "internal" /\ e.from # e.to /\ ElementType(e.from) = ElementType(e.to)
C19_SelfImports ==
  \A e \in lintChecked :
    /\ ElementType(e.from) # "unknown" => ElementTypesAllows(ElementType(e.from), ElementType(e.from))
    /\ SameLayer(e) => <<"boundaries/element-types", e>> \notin lintReported

\* C19, amended: the same for the five folder layers (domain, application,
\* infrastructure, mcp, di).  The entry layer is the single file src/index.ts
\* and is allowed mcp and di only.
C19_FolderSelfImports ==
  \A e \in lintChecked :
    /\ ElementType(e.from) \in FiveLayers =>
         ElementTypesAllows(ElementType(e.from), ElementType(e.from))
    /\ (SameLayer(e) /\ ElementType(e.from) \in FiveLayers) =>
         <<"boundaries/element-types", e>> \notin lintReported
    /\ ElementType(e.from) = "entry" =>
         /\ ~SameLayer(e)
         /\ e.kind = "internal" =>
              (<<"boundaries/element-types", e>> \in lintReported <=> ElementType(e.to) \notin {"mcp", "di"})
C19_Witness ==
  \E e1 \in lintChecked : \E e2 \in lintChecked :
    /\ SameLayer(e1) /\ SameLayer(e2)
    /\ ElementType(e1.from) = "infrastructure" /\ ElementType(e2.from) = "di"
    /\ lintReported = {}

\* C20: the imports that pass the lint create no circular dependency between
\* layers: no two distinct layers depend on each other, directly or through
\* a chain of imports.
DependsOn(a, b) ==
  \E e \in lintChecked :
    /\ e.kind = "internal" /\ ElementType(e.from) = a /\ ElementType(e.to) = b
    /\ <<"boundaries/element-types", e>> \notin lintReported

RECURSIVE LayersReached(_)
LayersReached(S) ==
  LET more == S \cup {b \in FiveLayers \cup {"entry"} : \E a \in S : DependsOn(a, b)}
  IN IF more = S THEN S ELSE LayersReached(more)

Reaches(a, b) == \E c \in FiveLayers \cup {"entry"} : DependsOn(a, c) /\ b \in LayersReached({c})

C20_NoLayerCycle ==
  \A a \in FiveLayers \cup {"entry"} : \A b \in FiveLayers \cup {"entry"} :
    a # b => ~(Reaches(a, b) /\ Reaches(b, a))

\* the two layers that can depend on each other are mcp and di, no others
C20_OnlyMcpAndDi ==
  \A a \in FiveLayers \cup {"entry"} : \A b \in FiveLayers \cup {"entry"} :
    (a # b /\ Reaches(a, b) /\ Reaches(b, a)) => {a, b} = {"mcp", "di"}
C20_Witness == Reaches("mcp", "di") /\ Reaches("di", "mcp") /\ lintReported = {}

\* C28: through chains of allowed imports domain reaches {domain},
\* application {application, domain} and infrastructure {infrastructure,
\* application, domain}: no chain that starts in one of the three reaches
\* mcp, di or the entry point.  Stated for the imports the lint accepted and
\* for the allow lists as a whole.
InnerReach ==
  [domain |-> {"domain"}, application |-> {"application", "domain"},
   infrastructure |-> {"infrastructure", "application", "domain"}]
RECURSIVE AllowedClosure(_)
AllowedClosure(S) ==
  LET more == S \cup {b \in FiveLayers \cup {"entry"} : \E a \in S : ElementTypesAllows(a, b)}
  IN IF more = S THEN S ELSE AllowedClosure(more)
C28_InnerLayersClosed ==
  \A a \in DOMAIN InnerReach :
    /\ LayersReached({a}) \subseteq InnerReach[a]
    /\ LayersReached({a}) \cap {"mcp", "di", "entry"} = {}
    /\ lintChecked # {} => AllowedClosure({a}) = InnerReach[a]
C28_Witness ==
  /\ LayersReached({"infrastructure"}) = {"infrastructure", "application", "domain"}
  /\ DependsOn("infrastructure", "application") /\ DependsOn("application", "domain")
  /\ ~DependsOn("infrastructure", "domain")

\* ------------------------------------------------------------------------
\* Properties of getPackageJson
\* ------------------------------------------------------------------------
\* C29: registry requests go out in batches of 5, a batch only after every
\* request of the batch before it settled: never more than 5 are in flight.
InFlight == net.deps.inflight \cup net.devDeps.inflight
C29_AtMostFiveInFlight == Cardinality(InFlight) <= 5
\* the same within each of the two lists
C29_AtMostFivePerList ==
  /\ Cardinality(net.deps.inflight) <= 5
  /\ Cardinality(net.devDeps.inflight) <= 5
  /\ \A list \in {"deps", "devDeps"} : \A pkg \in net[list].inflight :
       \A j \in 1..Len(net[list].packages) :
         (j < net[list].i - 5) => net[list].packages[j] \in DOMAIN net[list].results

\* C30: getPackageJson resolves, never rejects, with a version for every
\* package of both lists: ^ and the registry's version where the response
\* was good, the package's own fallback after a network error, a status that
\* is not ok or a body that does not parse, whatever the other requests did.
Answer(pkg) == IF pkg \in DOMAIN net.responses THEN net.responses[pkg] ELSE "version"
ListedFallback ==
  "dotenv" :> <<"^", "17.2.3">> @@ "@cucumber/cucumber" :> <<"^", "12.5.0">> @@
  "vitest" :> <<"^", "4.0.17">>
EntryIsRight(results, pkg) ==
  /\ Answer(pkg) = "version" => results[pkg] = <<"^", "99.0.0">>
  /\ Answer(pkg) # "version" => results[pkg] = ListedFallback[pkg]
C30_AlwaysAVersion ==
  /\ net.pc \in {"fetching", "resolved"}
  /\ \A pkg \in DOMAIN net.deps.results : EntryIsRight(net.deps.results, pkg)
  /\ \A pkg \in DOMAIN net.devDeps.results : EntryIsRight(net.devDeps.results, pkg)
  /\ net.pc = "fetching" => InFlight # {}
  /\ net.pc = "resolved" =>
       /\ DOMAIN net.deps.results = Range(dependencies)
       /\ DOMAIN net.devDeps.results = Range(devDependencies)
C30_Witness ==
  /\ net.pc = "resolved"
  /\ net.responses = [dotenv |-> "network error"] @@ ("@cucumber/cucumber" :> "version") @@ ("vitest" :> "bad body")
  /\ net.deps.results["dotenv"] = <<"^", "17.2.3">>
  /\ net.deps.results["zod"] = <<"^", "99.0.0">>

\* ------------------------------------------------------------------------
\* Properties of the generator
\* ------------------------------------------------------------------------
\* C21: the generator accepts a name exactly if it starts with a lowercase
\* letter and holds lowercase letters, digits and hyphens only.  A rejected
\* name gets an error that mentions "lowercase" and a non-zero exit status,
\* with no directory made, no file written, no child process started.  An
\* accepted name takes the run on to creating the project directory, which
\* exists from the first successful mkdir on.
LowercaseLetters == {"demo", "bug", "tracker", "mock"}
WellFormed(name) ==
  /\ Len(name) >= 1
  /\ name[1] \in LowercaseLetters
  /\ \A i \in 2..Len(name) : name[i] \in LowercaseLetters \cup {"2", "-"}
C22_CoverageEnforced ==
  (gate.status = 0) =>
    /\ "test:coverage" \in Range(gate.ran)
    /\ gate.thresholdsApplied
    /\ \A m \in {"statements", "branches", "functions", "lines"} : gate.coverage[m] >= 80

\* C23: every rule of the emitted ESLint configuration is error or off in
\* every file group, none is warn, so that eslint reports no finding without
\* `npm run lint` failing.
C23_ErrorsOnly ==
  <<"eslint", "src", "tests">> \in Range(gate.tools) =>
    /\ \A group \in {"src", "tests"} : \A rule \in DOMAIN eslintRules[group] :
         eslintRules[group][rule] \in {"error", "off"}
    /\ gate.reported # {} => gate.failed = <<"eslint", "src", "tests">>

\* C24: pre-commit runs check:code-quality, lint, format:check, typecheck,
\* build and the tests in this order; a stage starts only after all earlier
\* ones succeeded; the first failure fails pre-commit and nothing runs after it.
StageOrder == <<"check:code-quality", "lint", "format:check", "typecheck", "build", "test">>
StagesStarted ==
  LET IsStage(x) == x \in Range(StageOrder) IN SelectSeq(gate.ran, IsStage)
C24_StagesInOrder ==
  /\ gate.ran # <<>> => gate.ran[1] = "pre-commit"
  /\ StagesStarted = SubSeq(StageOrder, 1, Len(StagesStarted))
  /\ \A i \in 1..Len(gate.ran) : gate.ran[i] \in Range(StageOrder) \cup {"pre-commit", "test:unit", "test:features"}
  /\ \A i \in 1..Len(gate.ran) : \A j \in 1..Len(gate.ran) :
       (gate.ran[i] = "test:features" /\ gate.ran[j] = "test:unit") => j < i
  /\ gate.failed # <<>> =>
       /\ gate.status = 1 /\ gate.stack = <<>>
       /\ gate.tools[Len(gate.tools)] = gate.failed
       /\ \A i \in 1..(Len(gate.tools) - 1) : gate.tools[i] # gate.failed
  /\ gate.failed = <<>> => gate.status \in {-1, 0}
  /\ gate.status = 0 => StagesStarted = StageOrder /\ gate.stack = <<>>
  /\ gate.status = -1 => gate.stack # <<>>
C24_Witness ==
  /\ gate.status = 1 /\ gate.failed = <<"tsc", "--noEmit">>
  /\ StagesStarted = <<"check:code-quality", "lint", "format:check", "typecheck">>

\* C25: every listing shows at most N matching lines, N being 10 for the
\* direct imports and 5 elsewhere, and one overflow line exactly when there
\* are more than N matches, with the count total - N: lines shown plus
\* overflow count is the total.
SampleSize == IF shown.site.check = "3c" THEN 10 ELSE 5
C25_BoundedSample ==
  shown.pc \in {"done", "aborted"} =>
    /\ shown.lines <= SampleSize
    /\ shown.more <=> shown.total > SampleSize
    /\ shown.more => shown.overflow = shown.total - SampleSize
    /\ shown.lines + shown.overflow = shown.total
\* the same, for the listings that go through head and count within a function
C25_HeadListings ==
  (shown.site.head # 0 /\ ~shown.site.bare) => C25_BoundedSample

\* C26: in a run with a valid name every directory is made and every file
\* written before the first child process starts; the child processes then
\* start in the order chmod of the two scripts, git init, npm install, husky,
\* lint:fix, format, git add, git commit (all nine when none of them fails);
\* and when the success banner is printed every directory of the list and
\* every file of the map exists.
FixedOrder ==
  << "chmod +x scripts/check-code-quality.sh", "chmod +x .husky/pre-commit", "git init",
     "npm install", "npx husky", "npm run lint:fix", "npm run format", "git add .", "git commit" >>
PlaceOf(cmd) == CHOOSE k \in 1..Len(FixedOrder) : FixedOrder[k] = cmd
EverythingWritten ==
  /\ \A k \in 1..Len(directories) : directories[k] \in gen.dirs
  /\ \A k \in 1..Len(fileMap) : fileMap[k] \in gen.files
  /\ "." \in gen.dirs
SuccessBanner == <<"Successfully", "created">>
C26_FilesThenChildrenInOrder ==
  gen.pc # "args" =>
    /\ gen.children # <<>> => EverythingWritten
    /\ \A i \in 1..Len(gen.children) : gen.children[i] \in Range(FixedOrder)
    /\ \A i \in 1..Len(gen.children) : \A j \in 1..Len(gen.children) :
         i < j => PlaceOf(gen.children[i]) < PlaceOf(gen.children[j])
    /\ gen.children # <<>> => gen.children[1] = FixedOrder[1]
    /\ (gen.pc = "exited" /\ gen.failed = {} /\ gen.children # <<>>) => gen.children = FixedOrder
    /\ SuccessBanner \in gen.out => EverythingWritten
C26_Witness ==
  /\ gen.pc = "exited" /\ SuccessBanner \in gen.out /\ gen.children = FixedOrder
  /\ Cardinality(gen.files) = 36 /\ Cardinality(gen.dirs) = 19

\* C27: a failure of npm install, husky, lint:fix, format, git add or git
\* commit does not abort the run: the step after it starts, and the run ends
\* with the success banner and status 0.  A failure of a mkdir, a writeFile,
\* a chmod or git init ends the run with status 1 and no banner.
Tolerated == {"npm install", "npx husky", "npm run lint:fix", "npm run format", "git add .", "git commit"}
Fatal == {"mkdir", "writeFile", "chmod +x scripts/check-code-quality.sh", "chmod +x .husky/pre-commit", "git init"}
StepAfter ==
  [c \in Tolerated |->
     CASE c = "npm install" -> "npx husky"
       [] c = "npx husky" -> "npm run lint:fix"
       [] c \in {"npm run lint:fix", "npm run format"} -> "git add ."
       [] OTHER -> "banner"]
C27_FailureHandling ==
  gen.pc # "args" =>
    /\ gen.failed \subseteq Tolerated \cup Fatal
    /\ gen.failed \cap Fatal # {} =>
         gen.pc = "exited" /\ gen.exit = 1 /\ SuccessBanner \notin gen.out
    /\ (gen.failed \cap Fatal = {} /\ WellFormed(gen.name)) => gen.exit \in {-1, 0}
    /\ (gen.failed \cap Fatal = {} /\ WellFormed(gen.name) /\ gen.pc = "exited") =>
         /\ gen.exit = 0 /\ SuccessBanner \in gen.out
         /\ \A c \in gen.failed : StepAfter[c] # "banner" => StepAfter[c] \in Range(gen.children)
C27_Witness ==
  /\ gen.pc = "exited" /\ gen.exit = 0 /\ SuccessBanner \in gen.out
  /\ gen.failed = {"npm install", "npx husky", "npm run lint:fix", "git add ."}


====
